---- MODULE Spec2Model ----
(***************************************************************************)
(* Model of the Meta insights dashboard: the server's row flattener,       *)
(* resilient fetcher (metaFetch) and the POST /api/insights handler with   *)
(* its unsupported-field repair loop (src/Server/index.js), and the        *)
(* client's row normaliser, per-campaign aggregation, breakdown            *)
(* distribution and custom metrics (src/Web/src/App.jsx).                  *)
(*                                                                         *)
(* JavaScript values are records [t, s, n, d]: t is the typeof tag; a      *)
(* string carries its text in s; a number is the rational n/d in lowest    *)
(* terms (d > 0), NaN being the number with s = "NaN".  Floating-point     *)
(* rounding is not modelled; all numbers used are small rationals.         *)
(***************************************************************************)
EXTENDS Integers, Sequences, FiniteSets, TLC

(***************************************************************************)
(* Bounds of the model.                                                    *)
(***************************************************************************)
MaxEntries == 2
MaxAccounts == 2

(***************************************************************************)
(* JavaScript values.                                                      *)
(***************************************************************************)
Undefined == [t |-> "undefined", s |-> "", n |-> 0, d |-> 1]
Null == [t |-> "object", s |-> "null", n |-> 0, d |-> 1]
NestedObject == [t |-> "object", s |-> "{}", n |-> 0, d |-> 1]
ArrayValue == [t |-> "object", s |-> "[]", n |-> 0, d |-> 1]
NaN == [t |-> "number", s |-> "NaN", n |-> 0, d |-> 1]
\* the two infinite numbers have denominator 0 and the sign as numerator
Infinity == [t |-> "number", s |-> "Infinity", n |-> 1, d |-> 0]
NegInfinity == [t |-> "number", s |-> "-Infinity", n |-> 0 - 1, d |-> 0]
Str(text) == [t |-> "string", s |-> text, n |-> 0, d |-> 1]

Abs(i) == IF i < 0 THEN 0 - i ELSE i

RECURSIVE GCD(_, _)
GCD(a, b) == IF b = 0 THEN a ELSE GCD(b, a % b)

\* the number num/den (den # 0) in lowest terms
Rat(num, den) ==
  LET g == GCD(Abs(num), Abs(den))
      sg == IF den < 0 THEN 0 - 1 ELSE 1
  IN [t |-> "number", s |-> "", n |-> (sg * num) \div g, d |-> Abs(den) \div g]

Num(i) == [t |-> "number", s |-> "", n |-> i, d |-> 1]

IsNaN(v) == v.t = "number" /\ v.s = "NaN"
IsNumber(v) == v.t = "number"
IsString(v) == v.t = "string"

IsInfinite(v) == v.t = "number" /\ v.d = 0
\* Number.isFinite(v)
IsFinite(v) == v.t = "number" /\ ~IsNaN(v) /\ ~IsInfinite(v)
SignedInfinity(sign) == IF sign < 0 THEN NegInfinity ELSE Infinity

\* JS +, / and > on numbers; NaN is contagious and compares false; the sign of
\* a zero is not kept, so x / 0 takes the sign of x
NumAdd(a, b) ==
  IF IsNaN(a) \/ IsNaN(b) THEN NaN
  ELSE IF IsInfinite(a) THEN (IF IsInfinite(b) /\ a # b THEN NaN ELSE a)
  ELSE IF IsInfinite(b) THEN b
  ELSE Rat(a.n * b.d + b.n * a.d, a.d * b.d)
NumDiv(a, b) ==
  IF IsNaN(a) \/ IsNaN(b) THEN NaN
  ELSE IF IsInfinite(a) THEN (IF IsInfinite(b) THEN NaN ELSE SignedInfinity(a.n * (IF b.n < 0 THEN 0 - 1 ELSE 1)))
  ELSE IF IsInfinite(b) THEN Num(0)
  ELSE IF b.n = 0 THEN (IF a.n = 0 THEN NaN ELSE SignedInfinity(a.n))
  ELSE Rat(a.n * b.d, a.d * b.n)
IsPositive(v) == IsNumber(v) /\ ~IsNaN(v) /\ v.n > 0

\* Number(string) for the string literals that occur in the model
StringToNumber(text) ==
  CASE text = "0" -> Num(0)
    [] text = "1" -> Num(1)
    [] text = "2" -> Num(2)
    [] text = "3" -> Num(3)
    [] text = "4" -> Num(4)
    [] text = "5" -> Num(5)
    [] text = "7" -> Num(7)
    [] text = "10" -> Num(10)
    [] text = "20" -> Num(20)
    [] text = "100" -> Num(100)
    [] text = "2.5" -> Rat(5, 2)
    [] text = " 7 " -> Num(7)
    [] text = "" -> Num(0)
    [] text = " " -> Num(0)
    [] text = "-5" -> Num(0 - 5)
    [] text = "Infinity" -> Infinity
    [] OTHER -> NaN

\* Number(v)
ToJSNumber(v) ==
  CASE v.t = "number" -> v
    [] v.t = "string" -> StringToNumber(v.s)
    [] v = Null -> Num(0)
    [] OTHER -> NaN

\* variant: the value is stored as it came, without Number(v)
toNumber_Raw(v) == v

\* Number.isNaN(n) ? NaN : n is n itself
toNumber(v) == IF v = Null \/ v = Undefined \/ v = Str("") THEN NaN ELSE ToJSNumber(v)

(***************************************************************************)
(* Objects are functions from keys to values; a raw insight object keeps   *)
(* its scalar members in raw.scalars and its array members in raw.arrays   *)
(* (a sequence of entries per key).  An entry is null or an object with    *)
(* the members action_type and value (Undefined when missing).             *)
(***************************************************************************)
EmptyRow == [k \in {} |-> Undefined]
Get(row, k) == IF k \in DOMAIN row THEN row[k] ELSE Undefined
Put(row, k, v) == [x \in DOMAIN row \cup {k} |-> IF x = k THEN v ELSE row[x]]

Entry(type, val) == [isNull |-> FALSE, action_type |-> type, value |-> val]
NullEntry == [isNull |-> TRUE, action_type |-> Undefined, value |-> Undefined]

\* !a.action_type
Falsy(v) == v = Undefined \/ v = Null \/ v = Str("") \/ IsNaN(v) \/ (IsNumber(v) /\ v.n = 0)

HasArray(raw, k) == k \in DOMAIN raw.arrays

\* obj[k] as the top-level loop of flattenInsight sees it
RawMember(raw, k) == IF k \in DOMAIN raw.arrays THEN ArrayValue ELSE raw.scalars[k]
RawKeys(raw) == DOMAIN raw.scalars \cup DOMAIN raw.arrays

\* obj.X.forEach(a => { if (!a || !a.action_type) return; out[`X_${type}`] = toNumber(a.value) })
\* the members the loop assigns from entry i on; a later entry overwrites an earlier one
RECURSIVE EmitEntries(_, _, _)
EmitEntries(prefix, items, i) ==
  IF i > Len(items) THEN EmptyRow
  ELSE IF items[i].isNull \/ Falsy(items[i].action_type)
  THEN EmitEntries(prefix, items, i + 1)
  ELSE EmitEntries(prefix, items, i + 1)
         @@ (prefix \o "_" \o items[i].action_type.s :> toNumber(items[i].value))

\* let total = 0; items.forEach(x => { total += toNumber(x.value) })
RECURSIVE SumValues(_, _, _)
SumValues(total, items, i) ==
  IF i > Len(items) THEN total
  ELSE SumValues(NumAdd(total, toNumber(items[i].value)), items, i + 1)

\* x.value on a null entry throws a TypeError
SumThrows(items) == \E i \in 1..Len(items) : items[i].isNull

\* variant: the totals loop also emits a key per entry, as the action arrays do
EmitTotal_PerEntry(out, raw, k) ==
  IF HasArray(raw, k)
  THEN Put(EmitEntries(k, raw.arrays[k], 1) @@ out, k \o "_total",
           SumValues(Num(0), raw.arrays[k], 1))
  ELSE out

\* out with the members of the array's entries assigned to it
EmitArray(out, raw, k) == IF HasArray(raw, k) THEN EmitEntries(k, raw.arrays[k], 1) @@ out ELSE out
EmitTotal(out, raw, k) ==
  IF HasArray(raw, k) THEN Put(out, k \o "_total", SumValues(Num(0), raw.arrays[k], 1)) ELSE out

\* variant: the typeof v === "object" test is missing
CopiedKeys_KeepObjects(obj) ==
  {k \in RawKeys(obj) :
     LET v == RawMember(obj, k)
     IN ~(v = Null \/ v = Undefined) /\ v # ArrayValue}

\* the keys the top-level loop copies: not null, not an array, not an object
CopiedKeys(obj) ==
  {k \in RawKeys(obj) :
     LET v == RawMember(obj, k)
     IN ~(v = Null \/ v = Undefined) /\ v # ArrayValue /\ v.t # "object"}

\* the result is [threw, row]; threw means a TypeError left the function (then
\* no row is returned and the row member is not used)
flattenInsight(obj) ==
  [threw |-> \E k \in {"outbound_clicks", "outbound_clicks_ctr"} :
               HasArray(obj, k) /\ SumThrows(obj.arrays[k]),
   row |-> EmitTotal(
             EmitTotal(
               EmitArray(
                 EmitArray(
                   EmitArray([k \in CopiedKeys(obj) |-> obj.scalars[k]], obj, "actions"),
                   obj, "action_values"),
                 obj, "purchase_roas"),
               obj, "outbound_clicks"),
             obj, "outbound_clicks_ctr")]

\* if (cond) row[k] = v
PutIf(cond, row, k, v) == IF cond THEN Put(row, k, v) ELSE row

\* addDerived once spend, results and imp are computed
Derived(row, spend, results, imp) ==
  PutIf(IsPositive(imp) /\ IsPositive(results),
        PutIf(~IsNaN(spend) /\ IsPositive(results),
              PutIf(~IsNaN(results), row, "results", results),
              "cost_per_result", NumDiv(spend, results)),
        "result_rate", NumDiv(results, imp))

addDerived(row, resultActionType) ==
  Derived(row, toNumber(Get(row, "spend")),
          toNumber(Get(row, "actions_" \o resultActionType)),
          toNumber(Get(row, "impressions")))

(***************************************************************************)
(* Text that is matched by a regular expression is a sequence of tokens:   *)
(* a word (a maximal run of [A-Za-z0-9_]), one punctuation character, or   *)
(* one of the fixed phrases below.  Account ids and dates, whose pattern   *)
(* is checked character by character, are sequences of characters.         *)
(***************************************************************************)
AreNotValid == "are not valid for fields param"
IsNotValid == "is not valid for fields param"
ErrorCodeTag == "(#100)"
Quotes == {"'", "\""}
Digits == {"0", "1", "2", "3", "4", "5", "6", "7", "8", "9"}

ALWAYS_INCLUDE_FIELDS ==
  <<"actions", "action_values", "purchase_roas", "outbound_clicks", "outbound_clicks_ctr",
    "campaign_name", "campaign_id", "account_name", "account_id">>

DEFAULT_FIELDS ==
  <<"campaign_id", "campaign_name", "account_id", "account_name", "impressions", "reach",
    "spend", "clicks", "ctr", "cpc", "cpm", "date_start", "date_stop", "actions",
    "action_values", "purchase_roas", "outbound_clicks", "outbound_clicks_ctr">>

DEFAULT_API_VERSION == "v23.0"
DEFAULT_LEVEL == "campaign"
DEFAULT_TIME_INCREMENT == "1"

Range(seq) == {seq[i] : i \in 1..Len(seq)}

\* tokens on which /^[A-Za-z0-9_]+$/ succeeds
WordTokens ==
  Range(DEFAULT_FIELDS) \cup
  {"adset_name", "adset_id", "ad_name", "ad_id", "landing_page_views", "frequency",
   "Invalid", "OAuth", "token", "Unsupported", "request", "fields"}

\* a JS Set is kept as the sequence of its elements in insertion order
\* new Set(all): every element once, in the order of first insertion
InsertionOrder(all) ==
  LET indexed == [i \in 1..Len(all) |-> <<i, all[i]>>]
      IsFirst(p) == \A j \in 1..(p[1] - 1) : all[j] # p[2]
      firsts == SelectSeq(indexed, IsFirst)
  IN [k \in 1..Len(firsts) |-> firsts[k][2]]

\* xs.forEach(x => set.add(x)) on the set seq
SetAddAll(seq, xs) == InsertionOrder(seq \o xs)

\* array.filter(x => keep(x)) for keep given as a set
FilterIn(seq, keep) == LET Kept(x) == x \in keep IN SelectSeq(seq, Kept)

\* array.join(sep) on strings
RECURSIVE JoinRange(_, _, _, _)
JoinRange(seq, sep, lo, hi) ==
  IF lo >= hi THEN seq[lo]
  ELSE JoinRange(seq, sep, lo, (lo + hi) \div 2) \o sep
         \o JoinRange(seq, sep, (lo + hi) \div 2 + 1, hi)

Join(seq, sep) == IF seq = <<>> THEN "" ELSE JoinRange(seq, sep, 1, Len(seq))

Min(S) == CHOOSE x \in S : \A y \in S : x <= y

\* raw.replace(/^Meta API error \[\d+\]:\s*/, "")
MetaErrorPrefix(status) ==
  CASE status = 400 -> "Meta API error [400]:"
    [] status = 401 -> "Meta API error [401]:"
    [] status = 429 -> "Meta API error [429]:"
    [] status = 500 -> "Meta API error [500]:"
    [] OTHER -> "Meta API error [0]:"
HttpStatuses == {400, 401, 429, 500}

RECURSIVE TrimLeft(_)
TrimLeft(m) == IF m # <<>> /\ Head(m) = " " THEN TrimLeft(Tail(m)) ELSE m

RECURSIVE TrimRight(_)
TrimRight(m) == IF m # <<>> /\ m[Len(m)] = " " THEN TrimRight(SubSeq(m, 1, Len(m) - 1)) ELSE m

Trim(m) == TrimRight(TrimLeft(m))

Normalize(m) ==
  IF m # <<>> /\ Head(m) \in {MetaErrorPrefix(st) : st \in HttpStatuses}
  THEN TrimLeft(Tail(m)) ELSE m

\* segment.replace(/^['"]|['"]$/g, "")
StripTrailingQuote(a) ==
  IF a # <<>> /\ a[Len(a)] \in Quotes THEN SubSeq(a, 1, Len(a) - 1) ELSE a

StripQuotes(m) == StripTrailingQuote(IF m # <<>> /\ Head(m) \in Quotes THEN Tail(m) ELSE m)

\* string.split(",")
RECURSIVE SplitComma(_, _)
SplitComma(m, cur) ==
  IF m = <<>> THEN <<cur>>
  ELSE IF Head(m) = "," THEN <<cur>> \o SplitComma(Tail(m), <<>>)
       ELSE SplitComma(Tail(m), Append(cur, Head(m)))

IsIdentifier(seg) == Len(seg) = 1 /\ seg[1] \in WordTokens

\* /(?:\(#\d+\)\s*)?([^:]+?)\s+are not valid for fields param/i : the ends e
\* (position of the phrase) of a match starting at s
ListEnds(m, s) ==
  {e \in (s + 2)..Len(m) :
     /\ m[e] = AreNotValid
     /\ m[e - 1] = " "
     /\ \A i \in s..(e - 1) : m[i] # ":"}

\* group 1 of the leftmost match, or <<>> when there is no match
\* group 1 of the match that starts at s and ends before the phrase at e
ListGroupAt(m, s, e, afterTag) ==
  IF TrimLeft(SubSeq(m, afterTag, e - 1)) = <<>> THEN SubSeq(m, s, e - 1)
  ELSE TrimLeft(SubSeq(m, afterTag, e - 1))

ListGroupFrom(m, s) ==
  ListGroupAt(m, s, Min(ListEnds(m, s)), IF m[s] = ErrorCodeTag THEN s + 1 ELSE s)

ListStarts(m) == {s \in 1..Len(m) : ListEnds(m, s) # {}}

\* group 1 of the leftmost match, or <<>> when there is no match
ListGroup(m) == IF ListStarts(m) = {} THEN <<>> ELSE ListGroupFrom(m, Min(ListStarts(m)))

RECURSIVE ListSegments(_)
ListSegment(seg, rest) == IF IsIdentifier(seg) THEN <<seg[1]>> \o rest ELSE rest

ListSegments(segs) ==
  IF segs = <<>> THEN <<>>
  ELSE ListSegment(StripQuotes(Trim(Head(segs))), ListSegments(Tail(segs)))

ListMatchOf(group) == IF group = <<>> THEN <<>> ELSE ListSegments(SplitComma(group, <<>>))

ListMatch(m) == ListMatchOf(ListGroup(m))

\* /['"]?([A-Za-z0-9_]+)['"]?\s+(?:is|was)\s+not valid for fields param/i
SingleStarts(m) ==
  {i \in 1..Len(m) :
     /\ m[i] \in WordTokens
     /\ \E q \in {i, i + 1} :
          /\ q = i + 1 => (q <= Len(m) /\ m[q] \in Quotes)
          /\ \E e \in (q + 2)..Len(m) :
               /\ m[e] = IsNotValid
               /\ \A k \in (q + 1)..(e - 1) : m[k] = " "}

SingleMatchOf(m, starts) == IF starts = {} THEN <<>> ELSE <<m[Min(starts)]>>

SingleMatch(m) == SingleMatchOf(m, SingleStarts(m))

FieldsOfNormalized(normalized) == ListMatch(normalized) \o SingleMatch(normalized)

\* the fields one message contributes, list match first
FieldsOfMessage(raw) == IF raw = <<>> THEN <<>> ELSE FieldsOfNormalized(Normalize(raw))

(***************************************************************************)
(* An error is [message, status, meta, response]: message is the token     *)
(* sequence of error.message; meta and response are present (a one-element *)
(* sequence) on errors built by metaFetch only.  An upstream error payload *)
(* is [message, code].                                                     *)
(***************************************************************************)
OptMessage(opt) == IF opt = <<>> THEN <<>> ELSE opt[1].message

\* the names of the three messages in turn; seen keeps each name once
extractInvalidInsightFields(error) ==
  InsertionOrder(FieldsOfMessage(OptMessage(error.meta)) \o FieldsOfMessage(error.message)
                   \o FieldsOfMessage(OptMessage(error.response)))

\* wanted = new Set([...fields, ...ALWAYS_INCLUDE_FIELDS]), then the adds by level
ensureFields(fieldList, level) ==
  InsertionOrder(fieldList \o ALWAYS_INCLUDE_FIELDS
                   \o (IF level \in {"adset", "ad"} THEN <<"adset_name", "adset_id">> ELSE <<>>)
                   \o (IF level = "ad" THEN <<"ad_name", "ad_id">> ELSE <<>>))

(***************************************************************************)
(* State.  An optional value is <<>> (absent) or <<v>>.                    *)
(***************************************************************************)
VARIABLES
  pc,               \* "idle" | "fetch" (awaiting axios.get inside metaFetch) | "done";
                    \* "call" | "returned" | "threw" for a metaFetch call on its own
  body,             \* the parsed request body (InsightsBody.parse)
  token,            \* body.token || process.env.META_TOKEN
  requestedFields,  \* let requestedFields
  fields,           \* let fields
  baseParams,       \* const baseParams
  removedFields,    \* const removedFields (a Set, in insertion order)
  rows,             \* const rows of the current pass
  accIdx,           \* position of acc in body.accounts
  next,             \* let next: the URL being fetched
  attempt,          \* metaFetch's attempt parameter
  callLog,          \* history of a metaFetch call on its own: [answer, layer, wait]
  thrown,           \* history: the error the last metaFetch call threw to its caller
  lastRequest,      \* history: the last URL sent upstream for this POST
  request,          \* history: req.body and process.env.META_TOKEN of this POST
  rejected,         \* history: the field names upstream rejected in errors the handler saw
  response,         \* what res.status(..).json(..) sent
  raw,              \* flattener check: the raw insight object
  flat,             \* flattener check: result of flattenInsight / addDerived
  stage,            \* flattener check: "raw" | "flat" | "derived" | "threw" | "off"
  view,             \* client: "off" | "ready" | "crashed" (a render threw)
  isLoading,        \* client: const [isLoading, setIsLoading]
  mainResponse,     \* client: main.rows of the load in progress or last done
  platformResponse, \* client: platform.rows of that load
  detailRows,       \* client: const [detailRows, setDetailRows]
  rawRows,          \* client: const [rawRows, setRawRows]
  platformRows,     \* client: const [platformRows, setPlatformRows]
  platformDistribution, \* client: the memo buildDistribution(platformRows, ..)
  customMetrics,    \* client: const [customMetrics, setCustomMetrics]
  tableRowsWithCustom,  \* client: the customValues of the memo tableRowsWithCustom
  inFlight,         \* client: the loadData calls awaiting their Promise.all
  triggered,        \* client: the number of loadData calls that sent requests
  applied,          \* client, history: the loadData calls whose rows were stored, in order
  lastUpdated,      \* client: const [lastUpdated, setLastUpdated], a time as the number of loads stored
  errorMessage,     \* client: const [error, setError]
  autoRemovedFields,     \* client: autoRemovedFieldsRef.current
  excludedInsightFields, \* client: const [excludedInsightFields, setExcludedInsightFields]
  stored,           \* client: customMetrics of the settings in localStorage, <<>> without one
  configLoaded      \* client: const [configLoaded, setConfigLoaded]

vars == <<pc, body, token, requestedFields, fields, baseParams, removedFields, rows, accIdx,
          next, attempt, callLog, thrown, lastRequest, request, rejected, response,
          raw, flat, stage, view, isLoading, mainResponse, platformResponse, detailRows, rawRows, platformRows,
          platformDistribution, customMetrics, tableRowsWithCustom, inFlight, triggered, applied,
          lastUpdated, errorMessage, autoRemovedFields, excludedInsightFields, stored, configLoaded>>

handlerVars == <<pc, body, token, requestedFields, fields, baseParams, removedFields, rows,
                 accIdx, next, attempt, callLog, thrown, lastRequest, request, rejected,
                 response>>
flattenVars == <<raw, flat, stage>>
refreshVars == <<inFlight, triggered, applied, lastUpdated, errorMessage, autoRemovedFields,
                 excludedInsightFields>>
storageVars == <<stored, configLoaded>>
clientVars == <<view, isLoading, mainResponse, platformResponse, detailRows, rawRows, platformRows, platformDistribution,
                customMetrics, tableRowsWithCustom, refreshVars, storageVars>>

(***************************************************************************)
(* Request bodies.                                                         *)
(***************************************************************************)
Act1 == <<"a", "c", "t", "_", "1">>
Act2 == <<"a", "c", "t", "_", "2", "0">>
BadAct == <<"a", "c", "t", "_", "1", "x">>
GoodDate == <<"2", "0", "2", "4", "-", "0", "1", "-", "3", "1">>
BadDate == <<"2", "0", "2", "4", "-", "1", "-", "3", "1">>

\* variant: the pattern lost its \d+$ part
IsAccountId_PrefixOnly(str) ==
  /\ Len(str) >= 5
  /\ SubSeq(str, 1, 4) = <<"a", "c", "t", "_">>

\* /^act_\d+$/
IsAccountId(str) ==
  /\ Len(str) >= 5
  /\ SubSeq(str, 1, 4) = <<"a", "c", "t", "_">>
  /\ \A i \in 5..Len(str) : str[i] \in Digits

\* /^\d{4}-\d{2}-\d{2}$/
IsDate(str) ==
  /\ Len(str) = 10
  /\ \A i \in {1, 2, 3, 4, 6, 7, 9, 10} : str[i] \in Digits
  /\ str[5] = "-" /\ str[8] = "-"

Levels == {"campaign", "adset", "ad"}
ActionReportTimes == {"mixed", "impression", "conversion", "lifetime"}

Default(opt, dflt) == IF opt = <<>> THEN dflt ELSE opt[1]

\* InsightsBody.parse(req.body): [ok, value]
InsightsBodyParse(b) ==
  LET ok == /\ b.accounts # <<>>
            /\ \A i \in 1..Len(b.accounts[1]) : IsAccountId(b.accounts[1][i])
            /\ b.level # <<>> => b.level[1] \in Levels
            /\ b.since # <<>> => IsDate(b.since[1])
            /\ b.until # <<>> => IsDate(b.until[1])
            /\ b.breakdowns # <<>> => Len(b.breakdowns[1]) <= 2
            /\ b.actionReportTime # <<>> => b.actionReportTime[1] \in ActionReportTimes
  IN [ok |-> ok,
      value |-> [accounts |-> Default(b.accounts, <<>>),
                 level |-> Default(b.level, DEFAULT_LEVEL),
                 fields |-> Default(b.fields, DEFAULT_FIELDS),
                 since |-> b.since,
                 until |-> b.until,
                 datePreset |-> b.datePreset,
                 timeIncrement |-> Default(b.timeIncrement, DEFAULT_TIME_INCREMENT),
                 breakdowns |-> b.breakdowns,
                 useUnifiedAttribution |-> Default(b.useUnifiedAttribution, TRUE),
                 actionReportTime |-> Default(b.actionReportTime, "mixed"),
                 resultActionType |-> Default(b.resultActionType, "purchase"),
                 apiVersion |-> Default(b.apiVersion, DEFAULT_API_VERSION),
                 token |-> b.token]]

NoBody == InsightsBodyParse([accounts |-> <<>>, level |-> <<>>, fields |-> <<>>, since |-> <<>>,
                             until |-> <<>>, datePreset |-> <<>>, timeIncrement |-> <<>>,
                             breakdowns |-> <<>>, useUnifiedAttribution |-> <<>>,
                             actionReportTime |-> <<>>, resultActionType |-> <<>>,
                             apiVersion |-> <<>>, token |-> <<>>]).value

\* fields the handler drops before the first request
StaticInvalid ==
  {"landing_page_views", "video_2_sec_continuous_watch_actions", "video_3_sec_watched_actions"}

\* JSON.stringify({ since, until })
TimeRange(since, until) ==
  "{\"since\":\"" \o Join(since, "") \o "\",\"until\":\"" \o Join(until, "") \o "\"}"

\* if (cond) baseParams[k] = v
WithParam(cond, params, k, v) == IF cond THEN params @@ (k :> v) ELSE params

DateParams(b, params) ==
  IF b.since # <<>> /\ b.since[1] # <<>> /\ b.until # <<>> /\ b.until[1] # <<>>
  THEN params @@ ("time_range" :> TimeRange(b.since[1], b.until[1]))
  ELSE IF b.datePreset # <<>> /\ b.datePreset[1] # ""
  THEN params @@ ("date_preset" :> b.datePreset[1])
  ELSE params @@ ("date_preset" :> "last_7d")

\* const baseParams = {...} with its conditional members
BaseParamsOf(b) ==
  DateParams(b,
    WithParam(b.breakdowns # <<>> /\ Len(b.breakdowns[1]) > 0,
      WithParam(b.actionReportTime # "",
        WithParam(b.useUnifiedAttribution,
          ("level" :> b.level) @@ ("time_increment" :> b.timeIncrement) @@ ("limit" :> "5000"),
          "use_unified_attribution_setting", "true"),
        "action_report_time", b.actionReportTime),
      "breakdowns", IF b.breakdowns # <<>> THEN Join(b.breakdowns[1], ",") ELSE ""))

\* toQuery keeps the members that are not undefined, null or ""
toQuery(params) == [k \in {x \in DOMAIN params : params[x] # ""} |-> params[k]]

\* the first URL of an account; page is the position of the paging cursor
InsightsUrl(b, flds, params, acc) ==
  [apiVersion |-> b.apiVersion, account |-> acc, page |-> 1,
   query |-> toQuery(("fields" :> Join(flds, ",")) @@ params)]

(***************************************************************************)
(* Upstream (the Graph API).  Its data are fixed per account and page; its *)
(* failures are chosen freely for every request.                           *)
(***************************************************************************)
RawRow(id, spend, imp, acts, outb) ==
  [scalars |-> ("campaign_id" :> Str(id)) @@ ("spend" :> Str(spend)) @@ ("impressions" :> Str(imp)),
   arrays |-> ("actions" :> acts) @@ ("outbound_clicks" :> outb)]

UpstreamPages(acc) ==
  IF acc = Act1
  THEN << <<RawRow("c1", "10", "100", <<Entry(Str("purchase"), Str("4"))>>, <<Entry(Str("outbound_click"), Str("3"))>>),
            RawRow("c2", "20", "0", <<Entry(Str("lead"), Str("2"))>>, <<>>)>>,
          <<RawRow("c3", "5", "100", <<Entry(Str("purchase"), Str("abc"))>>, <<>>)>> >>
  ELSE << <<RawRow("c4", "7", "10", <<>>, <<Entry(Undefined, Str("1"))>>)>> >>

MalformedRow == RawRow("c9", "1", "1", <<NullEntry>>, <<NullEntry>>)

MsgTwoFields == <<ErrorCodeTag, " ", "spend", ",", " ", "clicks", " ", AreNotValid>>
MsgAlwaysIncluded == <<ErrorCodeTag, " ", "purchase_roas", " ", IsNotValid>>
MsgQuotedField == <<"Unsupported", " ", "request", ":", " ", "'", "reach", "'", " ", IsNotValid>>
MsgAuth == <<"Invalid", " ", "OAuth", " ", "token">>
MsgThrottled == <<"Application request limit reached">>

\* rejects: the field names upstream means to reject with this answer
HttpAnswer(status, err, statusText, rejects) ==
  [kind |-> "response", status |-> status, error |-> err, statusText |-> statusText,
   data |-> <<>>, next |-> <<>>, rejects |-> rejects]

\* a 2xx answer to url: one page of rows and the cursor of the next page
PageAnswer(url) ==
  LET pages == UpstreamPages(url.account)
  IN [kind |-> "response", status |-> 200, error |-> <<>>, statusText |-> <<"OK">>,
      data |-> pages[url.page],
      next |-> IF url.page < Len(pages) THEN <<[url EXCEPT !.page = url.page + 1]>> ELSE <<>>,
      rejects |-> {}]

UpstreamAnswers(url) ==
  { [kind |-> "throw", status |-> 0, error |-> <<>>, statusText |-> <<"ECONNRESET">>,
     data |-> <<>>, next |-> <<>>, rejects |-> {}],
    PageAnswer(url),
    [PageAnswer(url) EXCEPT !.data = <<MalformedRow>>, !.next = <<>>],
    HttpAnswer(429, <<>>, <<"Too Many Requests">>, {}),
    HttpAnswer(400, <<[message |-> MsgThrottled, code |-> 4]>>, <<"Bad Request">>, {}),
    HttpAnswer(400, <<[message |-> MsgTwoFields, code |-> 100]>>, <<"Bad Request">>,
               {"spend", "clicks"}),
    HttpAnswer(400, <<[message |-> MsgAlwaysIncluded, code |-> 100]>>, <<"Bad Request">>,
               {"purchase_roas"}),
    HttpAnswer(400, <<[message |-> MsgQuotedField, code |-> 100]>>, <<"Bad Request">>,
               {"reach"}),
    HttpAnswer(401, <<[message |-> MsgAuth, code |-> 190]>>, <<"Unauthorized">>, {}),
    HttpAnswer(500, <<>>, <<>>, {}) }

(***************************************************************************)
(* metaFetch: what one axios.get answer leads to at a given attempt.       *)
(* kind "return": res.data is returned; "retry": sleep(wait) and call      *)
(* metaFetch(url, token, attempt + 1); "throw": error reaches the caller.  *)
(***************************************************************************)
MinOf(a, b) == IF a < b THEN a ELSE b

RATE_LIMIT_ATTEMPTS == 6
CATCH_ATTEMPTS == 3
\* variant: the backoff is not capped
MAX_BACKOFF_Uncapped == 60000 * 1000
MAX_BACKOFF == 60000
BACKOFF_BASE == 1000
CATCH_WAIT == 500

Outcome(kind, layer, wait, error, ans) ==
  [kind |-> kind, layer |-> layer, wait |-> wait, error |-> error, data |-> ans.data,
   next |-> ans.next]

NoError == [message |-> <<>>, status |-> 0, meta |-> <<>>, response |-> <<>>]

\* variant: the catch layer gives up one attempt early
metaFetchCatch_OneLess(error, att, ans) ==
  IF att < CATCH_ATTEMPTS THEN Outcome("retry", "catch", CATCH_WAIT * att, <<>>, ans)
  ELSE Outcome("throw", "catch", 0, <<error>>, ans)

\* catch (error) { if (attempt <= 3) { await sleep(500 * attempt); return metaFetch(...) } throw error }
metaFetchCatch(error, att, ans) ==
  IF att <= CATCH_ATTEMPTS THEN Outcome("retry", "catch", CATCH_WAIT * att, <<>>, ans)
  ELSE Outcome("throw", "catch", 0, <<error>>, ans)

\* new Error(`Meta API error ${status}: ${message}`) with status, meta, response
metaError(ans, err, message) ==
  [message |-> <<MetaErrorPrefix(ans.status), " ">> \o message,
   status |-> ans.status,
   meta |-> <<err>>,
   response |-> ans.error]

\* err?.message || res.statusText || "Unknown error"
messageOf(ans, err) ==
  IF err.message # <<>> THEN err.message
  ELSE IF ans.statusText # <<>> THEN ans.statusText
  ELSE <<"Unknown error">>

metaFetchFailed(ans, att, err) ==
  IF (ans.status = 429 \/ err.code = 4) /\ att <= RATE_LIMIT_ATTEMPTS
  THEN Outcome("retry", "rate", MinOf(MAX_BACKOFF, BACKOFF_BASE * 2^att), <<>>, ans)
  ELSE metaFetchCatch(metaError(ans, err, messageOf(ans, err)), att, ans)

metaFetch(ans, att) ==
  IF ans.kind = "throw"
  THEN metaFetchCatch([NoError EXCEPT !.message = ans.statusText], att, ans)
  ELSE IF ans.status >= 200 /\ ans.status < 300
  THEN Outcome("return", "none", 0, <<>>, ans)
  ELSE metaFetchFailed(ans, att, IF ans.error # <<>> THEN ans.error[1]
                                 ELSE [message |-> ans.statusText, code |-> ans.status])

(***************************************************************************)
(* POST /api/insights.                                                     *)
(***************************************************************************)
ErrorResponse(message) ==
  [status |-> 400, error |-> message, count |-> 0, rows |-> <<>>, removedFields |-> <<>>]

\* { count: rows.length, rows } plus removedFields when the set is not empty
SuccessResponse(rws, removed) ==
  [status |-> 200, error |-> <<>>, count |-> Len(rws), rows |-> rws,
   removedFields |-> IF Len(removed) > 0 THEN <<removed>> ELSE <<>>]

NoTokenMessage == <<"No Meta token provided. Pass it in body.token or set META_TOKEN in .env">>
ZodErrorMessage == <<"ZodError">>
TypeErrorMessage == <<"Cannot read properties of null (reading 'value')">>

NoValidFieldsMessage(removed) ==
  <<"No valid fields remain after removing unsupported fields: " \o Join(removed, ", ")>>

Respond(r) ==
  /\ response' = <<r>>
  /\ pc' = "done"

\* variant: rows is declared outside the while loop and survives a restart
BeginPass_KeepRows(b, flds, params, removed) ==
  IF b.accounts = <<>>
  THEN /\ Respond(SuccessResponse(<<>>, removed))
       /\ rows' = <<>>
       /\ UNCHANGED <<accIdx, next, attempt>>
  ELSE /\ rows' = rows
       /\ accIdx' = 1
       /\ next' = <<InsightsUrl(b, flds, params, b.accounts[1])>>
       /\ attempt' = 1
       /\ pc' = "fetch"
       /\ UNCHANGED response

\* one iteration of while (true) starts: const rows = []; for (const acc of body.accounts) ...
BeginPass(b, flds, params, removed) ==
  IF b.accounts = <<>>
  THEN /\ Respond(SuccessResponse(<<>>, removed))
       /\ rows' = <<>>
       /\ UNCHANGED <<accIdx, next, attempt>>
  ELSE /\ rows' = <<>>
       /\ accIdx' = 1
       /\ next' = <<InsightsUrl(b, flds, params, b.accounts[1])>>
       /\ attempt' = 1
       /\ pc' = "fetch"
       /\ UNCHANGED response

\* the handler up to its first await
PostInsights(reqBody, envToken) ==
  /\ pc = "idle"
  /\ LET parsed == InsightsBodyParse(reqBody)
         b == parsed.value
         tok == IF b.token # <<>> /\ b.token[1] # "" THEN b.token ELSE envToken
         requested == InsertionOrder(FilterIn(b.fields, Range(b.fields) \ StaticInvalid))
     IN IF ~parsed.ok
        THEN /\ Respond(ErrorResponse(ZodErrorMessage))
             /\ UNCHANGED <<body, token, requestedFields, fields, baseParams, removedFields,
                            rows, accIdx, next, attempt>>
        ELSE IF tok = <<>> \/ tok[1] = ""
        THEN /\ Respond(ErrorResponse(NoTokenMessage))
             /\ body' = b
             /\ UNCHANGED <<token, requestedFields, fields, baseParams, removedFields,
                            rows, accIdx, next, attempt>>
        ELSE /\ body' = b
             /\ token' = tok
             /\ requestedFields' = requested
             /\ fields' = ensureFields(requestedFields', body'.level)
             /\ baseParams' = BaseParamsOf(body')
             /\ removedFields' = <<>>
             /\ BeginPass(body', fields', baseParams', removedFields')
  /\ request' = <<[body |-> reqBody, env |-> envToken]>>
  /\ UNCHANGED <<callLog, thrown, lastRequest, rejected>>
  /\ UNCHANGED flattenVars
  /\ UNCHANGED clientVars

\* history of the requests sent upstream for this POST
LogRequest(out) ==
  /\ lastRequest' = next
  /\ thrown' = out.error
  /\ UNCHANGED <<callLog, request>>

Retried(out) ==
  /\ out.kind = "retry"
  /\ attempt' = attempt + 1
  /\ LogRequest(out)

\* axios.get answered and metaFetch calls itself again
MetaFetchRetry(ans) ==
  /\ pc = "fetch"
  /\ Retried(metaFetch(ans, attempt))
  /\ UNCHANGED <<pc, body, token, requestedFields, fields, baseParams, removedFields, rows,
                 accIdx, next, response, rejected>>
  /\ UNCHANGED flattenVars
  /\ UNCHANGED clientVars

\* (payload.data || []).forEach(obj => { flat = flattenInsight(obj); addDerived(..); rows.push(flat) })
RECURSIVE FlattenPage(_, _)
FlattenCons(f, rest, resultActionType) ==
  IF f.threw \/ rest.threw THEN [threw |-> TRUE, rows |-> <<>>]
  ELSE [threw |-> FALSE, rows |-> <<addDerived(f.row, resultActionType)>> \o rest.rows]

FlattenPage(data, resultActionType) ==
  IF data = <<>> THEN [threw |-> FALSE, rows |-> <<>>]
  ELSE FlattenCons(flattenInsight(Head(data)), FlattenPage(Tail(data), resultActionType),
                   resultActionType)

\* the two ways the catch of the repair loop leaves: throw on, or continue
Decide(error, invalidFields, removed, filteredRequested) ==
  IF invalidFields = <<>>
  THEN [kind |-> "fail", message |-> error.message, removed |-> removedFields,
        requested |-> requestedFields]
  ELSE IF filteredRequested = <<>>
  THEN [kind |-> "fail", message |-> NoValidFieldsMessage(removed), removed |-> removed,
        requested |-> requestedFields]
  ELSE [kind |-> "repair", message |-> <<>>, removed |-> removed,
        requested |-> filteredRequested]

\* filteredRequested = requestedFields.filter((field) => !removedFields.has(field))
Filtered(error, invalidFields, removed) ==
  Decide(error, invalidFields, removed,
         FilterIn(requestedFields, Range(requestedFields) \ Range(removed)))

\* invalidFields.forEach((field) => removedFields.add(field))
Accumulate(error, invalidFields) ==
  Filtered(error, invalidFields, SetAddAll(removedFields, invalidFields))

\* variant: removedFields is rebuilt in every round instead of accumulated
HandleError_NoAccumulate(error) ==
  Filtered(error, extractInvalidInsightFields(error), extractInvalidInsightFields(error))

\* the catch of the repair loop (lines 313-326) and the outer catch (328-331)
HandleError(error) == Accumulate(error, extractInvalidInsightFields(error))

\* what the handler's catch blocks get once metaFetch has settled with out:
\* metaFetch's error or flattenInsight's TypeError
CaughtError(out) ==
  IF out.kind = "throw" THEN out.error
  ELSE IF out.kind = "return" /\ FlattenPage(out.data, body.resultActionType).threw
  THEN <<[NoError EXCEPT !.message = TypeErrorMessage]>>
  ELSE <<>>

\* the names upstream rejected with the answer whose error reached the handler
Rejects(ans, out) == IF out.kind = "throw" THEN ans.rejects ELSE {}

\* rows.push(flat) for the page, then the next page, the next account or the response
PageArrived(out, page) ==
  /\ out.kind = "return"
  /\ ~page.threw
  /\ LogRequest(out)
  /\ rows' = rows \o page.rows
  /\ IF out.next # <<>>
     THEN /\ next' = out.next
          /\ attempt' = 1
          /\ UNCHANGED <<pc, accIdx, response>>
     ELSE IF accIdx < Len(body.accounts)
     THEN /\ accIdx' = accIdx + 1
          /\ next' = <<InsightsUrl(body, fields, baseParams, body.accounts[accIdx + 1])>>
          /\ attempt' = 1
          /\ UNCHANGED <<pc, response>>
     ELSE /\ Respond(SuccessResponse(rows \o page.rows, removedFields))
          /\ UNCHANGED <<accIdx, next, attempt>>

PageSettled(out) == PageArrived(out, FlattenPage(out.data, body.resultActionType))

\* a page arrived: rows are pushed, then the next page, the next account or the response
PageFetched(ans) ==
  /\ pc = "fetch"
  /\ PageSettled(metaFetch(ans, attempt))
  /\ UNCHANGED <<body, token, requestedFields, fields, baseParams, removedFields, rejected>>
  /\ UNCHANGED flattenVars
  /\ UNCHANGED clientVars

\* res.status(400).json({ error: e.message || String(e) })
Fail(h) ==
  /\ h.kind = "fail"
  /\ removedFields' = h.removed
  /\ Respond(ErrorResponse(h.message))

FailedOn(ans, out, caught) ==
  /\ caught # <<>>
  /\ Fail(HandleError(caught[1]))
  /\ LogRequest(out)
  /\ rejected' = rejected \cup Rejects(ans, out)

FailedAfter(ans, out) == FailedOn(ans, out, CaughtError(out))

\* an error reached the handler and ends the request with status 400
RequestFailed(ans) ==
  /\ pc = "fetch"
  /\ FailedAfter(ans, metaFetch(ans, attempt))
  /\ UNCHANGED <<body, token, requestedFields, fields, baseParams, rows, accIdx, next, attempt>>
  /\ UNCHANGED flattenVars
  /\ UNCHANGED clientVars

\* requestedFields = filteredRequested; fields = ensureFields(requestedFields, body.level); continue
Repair(h) ==
  /\ h.kind = "repair"
  /\ removedFields' = h.removed
  /\ requestedFields' = h.requested
  /\ fields' = ensureFields(requestedFields', body.level)
  /\ BeginPass(body, fields', baseParams, removedFields')

RepairedOn(ans, out, caught) ==
  /\ caught # <<>>
  /\ Repair(HandleError(caught[1]))
  /\ LogRequest(out)
  /\ rejected' = rejected \cup Rejects(ans, out)

RepairedAfter(ans, out) == RepairedOn(ans, out, CaughtError(out))

\* a field rejection reached the handler: fields are dropped and the pass restarts
RepairRound(ans) ==
  /\ pc = "fetch"
  /\ RepairedAfter(ans, metaFetch(ans, attempt))
  /\ UNCHANGED <<body, token, baseParams>>
  /\ UNCHANGED flattenVars
  /\ UNCHANGED clientVars

(***************************************************************************)
(* Inputs of the handler: request bodies and the server's META_TOKEN.      *)
(***************************************************************************)
RECURSIVE SeqsUpTo(_, _)
SeqsUpTo(S, len) ==
  IF len = 0 THEN {<<>>}
  ELSE LET shorter == SeqsUpTo(S, len - 1)
       IN shorter \cup {Append(q, x) : q \in shorter, x \in S}

BaseBody ==
  [accounts |-> << <<Act1>> >>, level |-> <<>>, fields |-> << <<"spend", "clicks">> >>,
   since |-> <<>>, until |-> <<>>, datePreset |-> <<>>, timeIncrement |-> <<>>,
   breakdowns |-> <<>>, useUnifiedAttribution |-> <<>>, actionReportTime |-> <<>>,
   resultActionType |-> <<>>, apiVersion |-> <<>>, token |-> <<"tok">>]

AccountLists == SeqsUpTo({Act1, Act2, BadAct}, MaxAccounts)
FieldChoices == {<<>>, << <<"spend", "clicks">> >>, << <<"reach", "landing_page_views", "reach">> >>,
                 << <<>> >>}
LevelChoices == {<<>>, <<"ad">>, <<"bogus">>}

RequestBodies ==
  {[BaseBody EXCEPT !.accounts = <<a>>, !.fields = <<>>] : a \in AccountLists}
  \cup {[BaseBody EXCEPT !.fields = f, !.level = l] : f \in FieldChoices, l \in LevelChoices}
  \cup {[BaseBody EXCEPT !.token = t, !.resultActionType = r] :
          t \in {<<>>, <<"">>}, r \in {<<>>, <<"lead">>}}
  \cup {[BaseBody EXCEPT !.since = x, !.until = y, !.datePreset = p] :
          x \in {<<>>, <<GoodDate>>, <<BadDate>>}, y \in {<<>>, <<GoodDate>>},
          p \in {<<>>, <<"last_30d">>}}
  \cup {[BaseBody EXCEPT !.breakdowns = k, !.useUnifiedAttribution = u] :
          k \in {<<<<"age">>>>, <<<<"age", "gender", "country">>>>}, u \in {<<>>, <<FALSE>>}}
  \cup {[BaseBody EXCEPT !.accounts = <<>>], [BaseBody EXCEPT !.actionReportTime = <<"never">>]}

EnvTokens == {<<>>, <<"envtok">>}

EmptyParams == [k \in {} |-> ""]
NoFlat == [threw |-> FALSE, row |-> EmptyRow]
NoRaw == [scalars |-> EmptyRow, arrays |-> [k \in {} |-> <<>>]]

\* the client before it is mounted (view "off") or just mounted ("ready")
InitClient(mounted) ==
  /\ view = mounted
  /\ isLoading = FALSE
  /\ mainResponse = <<>>
  /\ platformResponse = <<>>
  /\ detailRows = <<>>
  /\ rawRows = <<>>
  /\ platformRows = <<>>
  /\ platformDistribution = <<>>
  /\ customMetrics = <<>>
  /\ tableRowsWithCustom = <<>>
  /\ inFlight = {}
  /\ triggered = 0
  /\ applied = <<>>
  /\ lastUpdated = <<>>
  /\ errorMessage = ""
  /\ autoRemovedFields = {}
  /\ excludedInsightFields = {}
  /\ stored = <<>>
  /\ configLoaded = FALSE

InitHandler ==
  /\ pc = "idle"
  /\ body = NoBody
  /\ token = <<>>
  /\ requestedFields = <<>>
  /\ fields = <<>>
  /\ baseParams = EmptyParams
  /\ removedFields = <<>>
  /\ rows = <<>>
  /\ accIdx = 0
  /\ next = <<>>
  /\ attempt = 1
  /\ callLog = <<>>
  /\ thrown = <<>>
  /\ lastRequest = <<>>
  /\ request = <<>>
  /\ rejected = {}
  /\ response = <<>>

Init ==
  /\ InitHandler
  /\ raw = NoRaw
  /\ flat = NoFlat
  /\ stage = "off"
  /\ InitClient("off")

Next ==
  \/ pc = "idle" /\ \E b \in RequestBodies, env \in EnvTokens : PostInsights(b, env)
  \/ pc = "fetch" /\ \E ans \in UpstreamAnswers(next[1]) : MetaFetchRetry(ans)
  \/ pc = "fetch" /\ \E ans \in UpstreamAnswers(next[1]) : PageFetched(ans)
  \/ pc = "fetch" /\ \E ans \in UpstreamAnswers(next[1]) : RequestFailed(ans)
  \/ pc = "fetch" /\ \E ans \in UpstreamAnswers(next[1]) : RepairRound(ans)

Spec == Init /\ [][Next]_vars

(***************************************************************************)
(* The row flattener on its own: flattenInsight, then addDerived, applied  *)
(* to raw insight objects drawn from a bounded set.                        *)
(***************************************************************************)
ActionEntries ==
  {NullEntry, Entry(Str("purchase"), Str("4")), Entry(Str("purchase"), Str("abc")),
   Entry(Str("lead"), Num(2)), Entry(Undefined, Str("7")), Entry(Str("lead"), Undefined),
   Entry(Str("purchase"), Str("Infinity"))}
OutboundEntries ==
  {NullEntry, Entry(Str("outbound_click"), Str("3")), Entry(Undefined, Str("1")),
   Entry(Str("other"), Str("abc"))}
ActionArrayKeys == {"actions", "action_values", "purchase_roas"}
OutboundKeys == {"outbound_clicks", "outbound_clicks_ctr"}

OptMember(k, opt) == IF opt = <<>> THEN [x \in {} |-> Undefined] ELSE (k :> opt[1])

RawObject(sp, im, ak, al, ok, ol, full) ==
  [scalars |-> ("campaign_name" :> Str("c")) @@ ("nothing" :> Null)
                 @@ ("targeting" :> NestedObject)
                 @@ OptMember("spend", sp) @@ OptMember("impressions", im),
   arrays |-> (ak :> al) @@ (ok :> ol) @@ ("cost_per_action_type" :> <<Entry(Str("lead"), Str("5"))>>)
                @@ (IF full THEN [k \in ActionArrayKeys |-> <<Entry(Str("purchase"), Str("2.5"))>>]
                    ELSE [k \in {} |-> <<>>])]

Spends == {<<>>, <<Str("10")>>, <<Str("Infinity")>>}
Impressions == {<<Str("100")>>, <<Str("0")>>}

\* raw is an object whose action array varies, or one whose outbound array varies
RawInput ==
  \/ \E sp \in Spends, im \in Impressions, full \in BOOLEAN,
        ak \in ActionArrayKeys, al \in SeqsUpTo(ActionEntries, MaxEntries),
        ok \in OutboundKeys, ol \in {<<>>, <<Entry(Str("outbound_click"), Str("3"))>>} :
        raw = RawObject(sp, im, ak, al, ok, ol, full)
  \/ \E sp \in Spends, im \in Impressions, full \in BOOLEAN,
        ak \in ActionArrayKeys, al \in {<<>>, <<Entry(Str("purchase"), Str("4"))>>},
        ok \in OutboundKeys, ol \in SeqsUpTo(OutboundEntries, MaxEntries) :
        raw = RawObject(sp, im, ak, al, ok, ol, full)

InitFlatten ==
  /\ InitHandler
  /\ RawInput
  /\ flat = NoFlat
  /\ stage = "raw"
  /\ InitClient("off")

Flatten ==
  /\ stage = "raw"
  /\ flat' = flattenInsight(raw)
  /\ stage' = IF flattenInsight(raw).threw THEN "threw" ELSE "flat"
  /\ UNCHANGED raw
  /\ UNCHANGED handlerVars
  /\ UNCHANGED clientVars

Derive(resultActionType) ==
  /\ stage = "flat"
  /\ flat' = [flat EXCEPT !.row = addDerived(flat.row, resultActionType)]
  /\ stage' = "derived"
  /\ UNCHANGED raw
  /\ UNCHANGED handlerVars
  /\ UNCHANGED clientVars

NextFlatten ==
  \/ Flatten
  \/ \E r \in {"purchase", "lead"} : Derive(r)

SpecFlatten == InitFlatten /\ [][NextFlatten]_vars

(***************************************************************************)
(* One metaFetch(url, token) call on its own, started at attempt 1, with   *)
(* the history of its upstream requests: the class of each answer, the     *)
(* layer that handled it and the sleep that followed.                      *)
(***************************************************************************)
AnswerClass(ans) ==
  IF ans.kind = "throw" THEN "transport"
  ELSE IF ans.status >= 200 /\ ans.status < 300 THEN "ok"
  ELSE IF ans.status = 429 \/ (ans.error # <<>> /\ ans.error[1].code = 4) THEN "ratelimit"
  ELSE "http"

CallUrls ==
  {InsightsUrl(NoBody, ensureFields(<<"spend">>, lv), BaseParamsOf(NoBody), acc) :
     lv \in {"campaign", "ad"}, acc \in {Act1, Act2}}

InitFetch ==
  /\ pc = "call"
  /\ body = NoBody
  /\ token = <<"tok">>
  /\ requestedFields = <<>>
  /\ fields = <<>>
  /\ baseParams = EmptyParams
  /\ removedFields = <<>>
  /\ rows = <<>>
  /\ accIdx = 0
  /\ next \in {<<u>> : u \in CallUrls}
  /\ attempt = 1
  /\ callLog = <<>>
  /\ thrown = <<>>
  /\ lastRequest = <<>>
  /\ request = <<>>
  /\ rejected = {}
  /\ response = <<>>
  /\ raw = NoRaw
  /\ flat = NoFlat
  /\ stage = "off"
  /\ InitClient("off")

CallStep(ans, kind) ==
  /\ pc = "call"
  /\ LET out == metaFetch(ans, attempt)
     IN /\ out.kind = kind
        /\ callLog' = Append(callLog, [answer |-> AnswerClass(ans), layer |-> out.layer,
                                       wait |-> out.wait])
        /\ thrown' = out.error
        /\ lastRequest' = next
        /\ attempt' = IF kind = "retry" THEN attempt + 1 ELSE attempt
        /\ pc' = IF kind = "retry" THEN "call" ELSE IF kind = "return" THEN "returned" ELSE "threw"
  /\ UNCHANGED <<body, token, requestedFields, fields, baseParams, removedFields, rows, accIdx,
                 next, response, request, rejected>>
  /\ UNCHANGED flattenVars
  /\ UNCHANGED clientVars

CallRetries(ans) == CallStep(ans, "retry")
CallReturns(ans) == CallStep(ans, "return")
CallThrows(ans) == CallStep(ans, "throw")

NextFetch ==
  \/ pc = "call" /\ \E ans \in UpstreamAnswers(next[1]) : CallRetries(ans)
  \/ pc = "call" /\ \E ans \in UpstreamAnswers(next[1]) : CallReturns(ans)
  \/ pc = "call" /\ \E ans \in UpstreamAnswers(next[1]) : CallThrows(ans)

SpecFetch == InitFetch /\ [][NextFetch]_vars

(***************************************************************************)
(* Properties.                                                             *)
(***************************************************************************)
Succeeded == response # <<>> /\ response[1].status = 200
Failed == response # <<>> /\ response[1].status # 200

\* C1: every repair round that does not end the request strictly shrinks the
\* requested field set (so the repair loop ends after finitely many rounds).
C1_RepairShrinksRequested ==
  [][(pc = "fetch" /\ \E ans \in UpstreamAnswers(next[1]) : RepairRound(ans))
       => Len(requestedFields') < Len(requestedFields)]_vars

\* C2: an answer that is non-2xx, not 429 and without error code 4 ends the
\* metaFetch call at once: it is the only request of the call and the call
\* throws an error carrying the upstream status and error payload.
C2_TerminalErrorNotRetried ==
  \A i \in 1..Len(callLog) :
    callLog[i].answer = "http" =>
      /\ i = 1 /\ Len(callLog) = 1
      /\ pc = "threw"
      /\ thrown # <<>> /\ thrown[1].status \in {400, 401, 500} /\ thrown[1].meta # <<>>

AllAnswers(class) == \A i \in 1..Len(callLog) : callLog[i].answer = class
RateLimitWaits == <<2000, 4000, 8000, 16000, 32000, 60000>>
TransportWaits == <<500, 1000, 1500>>

\* C3: a metaFetch call that upstream answers with 429 or error code 4 every
\* time sends at most 7 requests, sleeps min(60000, 1000*2^k) ms after the
\* request of attempt k <= 6, and throws the upstream error after the 7th.
C3_RateLimitRetries ==
  AllAnswers("ratelimit") =>
    /\ Len(callLog) <= 7
    /\ \A k \in 1..Len(callLog) :
         IF k <= 6
         THEN /\ callLog[k].layer = "rate"
              /\ callLog[k].wait = RateLimitWaits[k]
              /\ callLog[k].wait <= 60000
         ELSE callLog[k].layer = "catch" /\ callLog[k].wait = 0
    /\ pc = "call" <=> Len(callLog) < 7
    /\ pc # "call" =>
         /\ pc = "threw"
         /\ thrown # <<>> /\ thrown[1].status \in {429, 400} /\ thrown[1].meta # <<>>

C3_Witness == pc = "threw" /\ Len(callLog) = 7 /\ AllAnswers("ratelimit")

\* C4: a metaFetch call in which axios throws every time sends the same URL
\* at most 4 times, sleeps 500*attempt ms before each retry, and rethrows
\* the transport error after the 4th request.
C4_TransportRetries ==
  AllAnswers("transport") =>
    /\ Len(callLog) <= 4
    /\ callLog # <<>> => lastRequest = next
    /\ \A k \in 1..Len(callLog) :
         IF k <= 3
         THEN callLog[k].layer = "catch" /\ callLog[k].wait = TransportWaits[k]
         ELSE callLog[k].wait = 0
    /\ pc = "call" <=> Len(callLog) < 4
    /\ pc # "call" =>
         /\ pc = "threw"
         /\ thrown # <<>> /\ thrown[1].message = <<"ECONNRESET">> /\ thrown[1].meta = <<>>

C4_Witness == pc = "threw" /\ Len(callLog) = 4 /\ AllAnswers("transport")

\* C5: a successful response reports in removedFields exactly the field names
\* upstream rejected in the errors of all repair rounds, each once, and has
\* no removedFields member when nothing was rejected.
C5_RemovedFieldsReported ==
  Succeeded =>
    IF rejected = {} THEN response[1].removedFields = <<>>
    ELSE /\ response[1].removedFields # <<>>
         /\ Range(response[1].removedFields[1]) = rejected
         /\ Len(response[1].removedFields[1]) = Cardinality(rejected)

C5_Witness == Succeeded /\ rejected = {"spend", "clicks", "reach"} /\ response[1].count > 0

\* a request the handler must reject before any upstream request
BadRequest(r) ==
  \/ r.body.accounts = <<>>
  \/ BadAct \in Range(r.body.accounts[1])
  \/ r.body.level = <<"bogus">>
  \/ r.body.since = <<BadDate>>
  \/ r.body.breakdowns # <<>> /\ Len(r.body.breakdowns[1]) > 2
  \/ r.body.token \in {<<>>, <<"">>} /\ r.env = <<>>

\* C6: every failure is answered with status 400 and a body {error: message},
\* never 5xx, and a request that fails validation or has no usable token is
\* rejected without any upstream request.
C6_FailuresAre400 ==
  /\ pc = "done" => response # <<>>
  /\ response # <<>> =>
       /\ response[1].status \in {200, 400}
       /\ response[1].status = 400 <=> response[1].error # <<>>
  /\ request # <<>> /\ BadRequest(request[1]) => Failed /\ lastRequest = <<>>

C6_Witness ==
  /\ request # <<>> /\ request[1].body.accounts = << <<Act1, BadAct>> >>
  /\ Failed /\ response[1].status = 400 /\ lastRequest = <<>>

CampaignIds(acc) == IF acc = Act1 THEN <<"c1", "c2", "c3">> ELSE <<"c4">>

RECURSIVE ExpectedIds(_)
ExpectedIds(accounts) ==
  IF accounts = <<>> THEN <<>> ELSE CampaignIds(Head(accounts)) \o ExpectedIds(Tail(accounts))

RECURSIVE ExpectedPages(_, _)
ExpectedPages(pages, rat) ==
  IF pages = <<>> THEN <<>>
  ELSE FlattenPage(Head(pages), rat).rows \o ExpectedPages(Tail(pages), rat)

RECURSIVE ExpectedRows(_, _)
ExpectedRows(accounts, rat) ==
  IF accounts = <<>> THEN <<>>
  ELSE ExpectedPages(UpstreamPages(Head(accounts)), rat) \o ExpectedRows(Tail(accounts), rat)

\* C7: the rows of a successful response are the flattened rows of all pages
\* of all accounts, in the order of body.accounts, then page, then row; rows
\* of an aborted pass are not among them; count is the number of rows.
C7_RowsInRequestOrder ==
  Succeeded =>
    /\ response[1].rows = ExpectedRows(body.accounts, body.resultActionType)
    /\ [i \in 1..Len(response[1].rows) |-> response[1].rows[i]["campaign_id"].s]
         = ExpectedIds(body.accounts)
    /\ response[1].count = Len(response[1].rows)

C7_Witness ==
  Succeeded /\ body.accounts = <<Act2, Act1>> /\ rejected # {} /\ response[1].count = 4

\* C8: every value of a row returned by flattenInsight and addDerived is a
\* string or a number; no array, nested object or null remains.
C8_FlatRowScalars ==
  stage \in {"flat", "derived"} =>
    \A k \in DOMAIN flat.row : flat.row[k].t \in {"string", "number"}

C8_Witness ==
  /\ stage = "derived"
  /\ "targeting" \in DOMAIN raw.scalars
  /\ {"campaign_name", "cost_per_result", "actions_purchase"} \subseteq DOMAIN flat.row

\* Number(value) of the entry values the inputs use, written out
ExpectedNumeric(v) ==
  CASE v = Str("1") -> Num(1)
    [] v = Str("3") -> Num(3)
    [] v = Str("4") -> Num(4)
    [] v = Str("5") -> Num(5)
    [] v = Str("7") -> Num(7)
    [] v = Str("2.5") -> Rat(5, 2)
    [] v = Num(2) -> Num(2)
    [] v = Str("Infinity") -> Infinity
    [] OTHER -> NaN

HasType(a) == ~a.isNull /\ a.action_type.t = "string" /\ a.action_type.s # ""
TypedEntries(items) == {i \in 1..Len(items) : HasType(items[i])}
KeyOf(k, a) == k \o "_" \o a.action_type.s
LastOfType(items, i) ==
  CHOOSE j \in TypedEntries(items) :
    /\ items[j].action_type = items[i].action_type
    /\ \A l \in TypedEntries(items) : items[l].action_type = items[i].action_type => l <= j
EntryKeys(k) == {KeyOf(k, raw.arrays[k][i]) : i \in TypedEntries(raw.arrays[k])}

\* C9: for each entry of actions, action_values or purchase_roas that has an
\* action_type, the row holds under {field}_{action_type} the numeric
\* conversion of the value (of the last entry of that type), NaN when it is
\* not numeric; entries without an action_type add no key.
C9_ActionEntriesFlattened ==
  stage = "flat" =>
    /\ \A k \in ActionArrayKeys \cap DOMAIN raw.arrays :
         \A i \in TypedEntries(raw.arrays[k]) :
           /\ KeyOf(k, raw.arrays[k][i]) \in DOMAIN flat.row
           /\ flat.row[KeyOf(k, raw.arrays[k][i])]
                = ExpectedNumeric(raw.arrays[k][LastOfType(raw.arrays[k], i)].value)
    /\ DOMAIN flat.row \ (DOMAIN raw.scalars \cup {"outbound_clicks_total", "outbound_clicks_ctr_total"})
         = UNION {EntryKeys(k) : k \in ActionArrayKeys \cap DOMAIN raw.arrays}

C9_Witness ==
  /\ stage = "flat"
  /\ "actions" \in DOMAIN raw.arrays
  /\ raw.arrays["actions"] = <<Entry(Undefined, Str("7")), Entry(Str("purchase"), Str("4"))>>
  /\ flat.row["actions_purchase"] = Num(4)

RECURSIVE ExpectedTotal(_)
ExpectedTotal(items) ==
  IF items = <<>> THEN 0
  ELSE ExpectedNumeric(items[Len(items)].value).n + ExpectedTotal(SubSeq(items, 1, Len(items) - 1))

TotalOf(items) ==
  IF \E i \in 1..Len(items) : ExpectedNumeric(items[i].value) = NaN THEN NaN
  ELSE Num(ExpectedTotal(items))

C11_FlattenNeverThrows == stage # "threw"

ResultActionTypes == {"purchase", "lead"}
ExpectedDerived(pre, spend, results, imp) ==
  LET setResults == IsFinite(results)
      setCost == IsFinite(spend) /\ IsFinite(results) /\ IsPositive(results)
      setRate == IsPositive(results) /\ IsPositive(imp)
      keys == DOMAIN pre
                \cup (IF setResults THEN {"results"} ELSE {})
                \cup (IF setCost THEN {"cost_per_result"} ELSE {})
                \cup (IF setRate THEN {"result_rate"} ELSE {})
  IN [k \in keys |->
        IF k = "results" /\ setResults THEN results
        ELSE IF k = "cost_per_result" /\ setCost THEN NumDiv(spend, results)
        ELSE IF k = "result_rate" /\ setRate THEN NumDiv(results, imp)
        ELSE pre[k]]

\* C12: addDerived sets results to the value of actions_<resultActionType>
\* exactly when that value is a finite number, cost_per_result to
\* spend / results exactly when both are finite and results > 0, result_rate
\* to results / impressions exactly when both are positive, and changes no
\* other key of the row.
C12_AddDerivedAsSpecified ==
  [][\A r \in ResultActionTypes :
       Derive(r) =>
         flat'.row = ExpectedDerived(flat.row, toNumber(Get(flat.row, "spend")),
                                     toNumber(Get(flat.row, "actions_" \o r)),
                                     toNumber(Get(flat.row, "impressions")))]_vars

(***************************************************************************)
(* The dashboard client (src/Web/src/App.jsx): number coercions, the row   *)
(* normaliser, the per-campaign aggregation, the breakdown distribution    *)
(* and the custom metrics.                                                 *)
(***************************************************************************)
NumMul(a, b) ==
  IF IsNaN(a) \/ IsNaN(b) THEN NaN
  ELSE IF IsInfinite(a) \/ IsInfinite(b)
       THEN (IF a.n = 0 \/ b.n = 0 THEN NaN ELSE SignedInfinity(a.n * b.n))
  ELSE Rat(a.n * b.n, a.d * b.d)
\* a > b and a <= b on finite numbers (false when either side is NaN)
NumGt(a, b) == IsFinite(a) /\ IsFinite(b) /\ a.n * b.d > b.n * a.d
NumLe(a, b) == IsFinite(a) /\ IsFinite(b) /\ a.n * b.d <= b.n * a.d

\* a || b and a ?? b
Or(a, b) == IF Falsy(a) THEN b ELSE a
Nullish(a, b) == IF a = Null \/ a = Undefined THEN b ELSE a

\* const num = Number(value); return Number.isFinite(num) ? num : 0
safeNumber(value) == IF IsFinite(ToJSNumber(value)) THEN ToJSNumber(value) ELSE Num(0)

\* /^[a-zA-Z_][a-zA-Z0-9_]*$/.test(key), for the keys that occur in the model:
\* the two keys below start with a digit or hold a dash
UnsafeKeys == {"7d_click", "video-views"}
isSafeMetricKey(key) == key \notin UnsafeKeys

\* value.trim() is empty
IsBlank(text) == text = "" \/ text = " "

\* null is the JS null
toFiniteNumber(value) ==
  IF value.t = "number" /\ IsFinite(value) THEN value
  ELSE IF value.t = "string" /\ ~IsBlank(value.s) /\ IsFinite(StringToNumber(value.s))
       THEN StringToNumber(value.s)
  ELSE Null

\* A normalised row is [o, raw]: o holds the own properties but raw (its
\* key maps to NestedObject), raw is the FlatRow it was made from.
Ratio(num, den) == IF NumGt(den, Num(0)) THEN NumDiv(num, den) ELSE Num(0)

NameOf(row) ==
  Or(Get(row, "campaign_name"),
     Or(Get(row, "adset_name"), Or(Get(row, "ad_name"), Or(Get(row, "account_name"), Str("Unnamed")))))
\* `${name}-${row.date_start || ""}-${row.date_stop || ""}`
FallbackId(row) ==
  Str(NameOf(row).s \o "-" \o Or(Get(row, "date_start"), Str("")).s
        \o "-" \o Or(Get(row, "date_stop"), Str("")).s)
IdOf(row) ==
  Or(Get(row, "campaign_id"), Or(Get(row, "adset_id"), Or(Get(row, "ad_id"), FallbackId(row))))

\* variant: roas prefers the computed ratio to the upstream value
Roas_ComputedFirst(roasPurchase, spend, valuesPurchase) ==
  IF NumGt(spend, Num(0)) /\ NumGt(valuesPurchase, Num(0)) THEN NumDiv(valuesPurchase, spend)
  ELSE IF NumGt(roasPurchase, Num(0)) THEN roasPurchase
  ELSE Num(0)

Roas(roasPurchase, spend, valuesPurchase) ==
  IF NumGt(roasPurchase, Num(0)) THEN roasPurchase
  ELSE IF NumGt(spend, Num(0)) /\ NumGt(valuesPurchase, Num(0)) THEN NumDiv(valuesPurchase, spend)
  ELSE Num(0)

\* the object literal `normalized` of normalizeMainRow
NormalizedLiteral(row, impressions, clicks, spend, results, valuesPurchase, roasPurchase) ==
  [id |-> IdOf(row),
   campaign_id |-> IdOf(row),
   name |-> NameOf(row),
   impressions |-> impressions,
   clicks |-> clicks,
   spend |-> spend,
   ctr |-> Ratio(clicks, impressions),
   cpm |-> IF NumGt(impressions, Num(0))
           THEN NumMul(NumDiv(spend, impressions), Num(1000)) ELSE Num(0),
   cpc |-> Ratio(spend, clicks),
   results |-> results,
   cost_per_result |-> Ratio(spend, results),
   roas |-> Roas(roasPurchase, spend, valuesPurchase),
   value |-> valuesPurchase,
   date_start |-> Get(row, "date_start"),
   date_stop |-> Get(row, "date_stop"),
   account_name |-> Or(Get(row, "account_name"), Str("")),
   raw |-> NestedObject]

NormalizedBase(row) ==
  NormalizedLiteral(row,
                    safeNumber(Get(row, "impressions")),
                    safeNumber(Nullish(Get(row, "clicks"), Get(row, "outbound_clicks_total"))),
                    safeNumber(Get(row, "spend")),
                    safeNumber(Nullish(Get(row, "results"), Get(row, "actions_purchase"))),
                    safeNumber(Get(row, "action_values_purchase")),
                    safeNumber(Get(row, "purchase_roas_purchase")))

\* variant: an existing finite number is replaced, not added to
MergedValue_Replace(current, numeric) == numeric

\* the three branches of mergeNumeric once numeric is not null: in the second
\* and in the third (Number.isFinite(numeric) holds there) numeric is stored
MergedValue(current, numeric) ==
  IF current.t = "number" /\ IsFinite(current) THEN NumAdd(current, numeric) ELSE numeric

Merges(key, value) == isSafeMetricKey(key) /\ toFiniteNumber(value) # Null

mergeNumeric(normalized, key, value) ==
  IF Merges(key, value)
  THEN Put(normalized, key, MergedValue(Get(normalized, key), toFiniteNumber(value)))
  ELSE normalized

\* Object.entries(row).forEach(([key, value]) => mergeNumeric(key, value)): the
\* keys of row are distinct and a call changes only its own key, so the order
\* of the calls does not matter.  A FlatRow holds no arrays, so no entry is
\* skipped by Array.isArray and flattenMetricArray returns at once for every
\* array source.
MergeEntries(normalized, row) ==
  [k \in DOMAIN normalized \cup {x \in DOMAIN row : Merges(x, row[x])} |->
     IF k \in DOMAIN row THEN mergeNumeric(normalized, k, row[k])[k] ELSE normalized[k]]

normalizeMainRow(row) == [o |-> MergeEntries(NormalizedBase(row), row), raw |-> row]

\* the order of the date strings of the model under the JS < on strings
DateRank(date) ==
  CASE date = Str("2024-01-01") -> 1
    [] date = Str("2024-01-02") -> 2
    [] OTHER -> 0

skipKeys ==
  {"id", "campaign_id", "name", "account_name", "date_start", "date_stop", "raw", "impressions",
   "clicks", "spend", "results", "value", "ctr", "cpm", "cpc", "cost_per_result", "roas"}

\* row.campaign_id || row.id || row.raw?.campaign_id || row.name
GroupKey(row) ==
  Or(row.o.campaign_id, Or(row.o.id, Or(Get(row.raw, "campaign_id"), row.o.name)))

\* what a row adds to existing[k]: row[k] for the four fields summed as they
\* are (a value that is not a number makes the sum NaN), row[k] || 0 for
\* value and for the other keys
Addend(row, k) ==
  IF k \in {"impressions", "clicks", "spend", "results"}
  THEN (IF Get(row.o, k).t = "number" THEN row.o[k] ELSE NaN)
  ELSE Or(Get(row.o, k), Num(0))

RECURSIVE SumFrom(_, _, _)
\* the sum of what members[i], ..., members[Len(members)] add to key k
SumFrom(members, k, i) ==
  IF i > Len(members) THEN Num(0)
  ELSE NumAdd(Addend(members[i], k), SumFrom(members, k, i + 1))

\* the earliest (latest = TRUE: the latest) truthy date of the group, the
\* first row's own value when no row has one
GroupDate(members, k, latest) ==
  LET dated == {i \in 1..Len(members) : ~Falsy(Get(members[i].o, k))}
  IN IF dated = {} THEN Get(members[1].o, k)
     ELSE members[CHOOSE i \in dated :
                    \A j \in dated :
                      IF latest THEN DateRank(members[j].o[k]) <= DateRank(members[i].o[k])
                      ELSE DateRank(members[i].o[k]) <= DateRank(members[j].o[k])].o[k]

\* the keys later rows of the group add: finite numbers outside skipKeys
AddedKeys(members) ==
  UNION {{k \in DOMAIN members[i].o \ skipKeys :
            members[i].o[k].t = "number" /\ IsFinite(members[i].o[k])} : i \in 2..Len(members)}

\* variant: the ratios of the group are those of its first row
GroupRatio_First(members, k, num, den) == members[1].o[k]

\* ctr, cpc and cost_per_result of a group, from its sums
GroupRatio(members, k, num, den) == Ratio(SumFrom(members, num, 1), SumFrom(members, den, 1))

\* the row of one group: the entry of the Map after the last row of the group,
\* then the final map() that recomputes the ratios
GroupRow(members) ==
  [o |-> [k \in DOMAIN members[1].o \cup AddedKeys(members) |->
            CASE k \in {"impressions", "clicks", "spend", "results", "value"} -> SumFrom(members, k, 1)
              [] k = "ctr" -> GroupRatio(members, k, "clicks", "impressions")
              [] k = "cpm" ->
                   IF NumGt(SumFrom(members, "impressions", 1), Num(0))
                   THEN NumMul(NumDiv(SumFrom(members, "spend", 1), SumFrom(members, "impressions", 1)),
                               Num(1000))
                   ELSE Num(0)
              [] k = "cpc" -> GroupRatio(members, k, "spend", "clicks")
              [] k = "cost_per_result" -> GroupRatio(members, k, "spend", "results")
              [] k = "roas" ->
                   IF NumGt(SumFrom(members, "value", 1), Num(0)) /\ NumGt(SumFrom(members, "spend", 1), Num(0))
                   THEN NumDiv(SumFrom(members, "value", 1), SumFrom(members, "spend", 1))
                   ELSE Or(members[1].o.roas, Num(0))
              [] k = "date_start" -> GroupDate(members, k, FALSE)
              [] k = "date_stop" -> GroupDate(members, k, TRUE)
              [] k \in {"id", "campaign_id", "name", "account_name", "raw"} -> members[1].o[k]
              [] OTHER -> SumFrom(members, k, 1)],
   raw |-> members[1].raw]

Keyed(list) == SelectSeq(list, LAMBDA row : ~Falsy(GroupKey(row)))
GroupKeys(list) == InsertionOrder([i \in 1..Len(Keyed(list)) |-> GroupKey(Keyed(list)[i])])
MembersOf(list, id) == SelectSeq(list, LAMBDA row : GroupKey(row) = id)

aggregateByCampaign(list) ==
  [g \in 1..Len(GroupKeys(list)) |-> GroupRow(MembersOf(list, GroupKeys(list)[g]))]

\* normalizeBreakdownRows(rows, key): the bucket is kept under the member
\* bucket instead of under the computed key
BreakdownRow(row, key) ==
  [bucket |-> Nullish(Get(row, key), Nullish(Get(row, "breakdown_value"), Str("Unknown"))),
   spend |-> safeNumber(Get(row, "spend")),
   value |-> safeNumber(Nullish(Get(row, "value"), Get(row, "action_values_purchase"))),
   results |-> safeNumber(Nullish(Get(row, "results"), Get(row, "actions_purchase"))),
   clicks |-> safeNumber(Nullish(Get(row, "clicks"), Get(row, "total_unique_clicks"))),
   impressions |-> safeNumber(Get(row, "impressions"))]
normalizeBreakdownRows(list, key) == [i \in 1..Len(list) |-> BreakdownRow(list[i], key)]

\* bucketRaw ? bucketRaw.toString() : "Unknown" (the buckets are strings)
BucketOf(row) == IF Falsy(row.bucket) THEN "Unknown" ELSE row.bucket.s

\* one step of the chain `if (amount <= 0 && x > 0) amount = x`
Fallback(amount, x) == IF NumLe(amount, Num(0)) /\ NumGt(x, Num(0)) THEN x ELSE amount
\* variant: the amount of a row is its spend alone
RowAmount_SpendOnly(row) == safeNumber(row.spend)
RowAmount(row) ==
  Fallback(Fallback(Fallback(Fallback(safeNumber(row.spend), safeNumber(row.value)),
                             safeNumber(row.results)),
                    safeNumber(row.clicks)),
           safeNumber(row.impressions))

RECURSIVE FieldSum(_, _, _)
FieldSum(members, field, i) ==
  IF i > Len(members) THEN Num(0)
  ELSE NumAdd(safeNumber(members[i][field]), FieldSum(members, field, i + 1))
RECURSIVE AmountSum(_, _)
AmountSum(members, i) ==
  IF i > Len(members) THEN Num(0) ELSE NumAdd(RowAmount(members[i]), AmountSum(members, i + 1))

\* the entry of the Map totals for one bucket after the first forEach
BucketEntry(members) ==
  [spend |-> FieldSum(members, "spend", 1), value |-> FieldSum(members, "value", 1),
   results |-> FieldSum(members, "results", 1), clicks |-> FieldSum(members, "clicks", 1),
   impressions |-> FieldSum(members, "impressions", 1), amount |-> AmountSum(members, 1)]
Buckets(list) == InsertionOrder([i \in 1..Len(list) |-> BucketOf(list[i])])
BucketMembers(list, name) == SelectSeq(list, LAMBDA row : BucketOf(row) = name)
Totals(list) ==
  [b \in 1..Len(Buckets(list)) |->
     [name |-> Buckets(list)[b], stats |-> BucketEntry(BucketMembers(list, Buckets(list)[b]))]]

RECURSIVE EntrySum(_, _)
\* totals.forEach((entry) => { grandTotal += entry.amount })
EntrySum(totals, i) ==
  IF i > Len(totals) THEN Num(0) ELSE NumAdd(totals[i].stats.amount, EntrySum(totals, i + 1))

\* entry.spend || entry.value || entry.results || entry.clicks || entry.impressions
FirstNonZero(stats) ==
  Or(stats.spend, Or(stats.value, Or(stats.results, Or(stats.clicks, stats.impressions))))
\* the Map after the block `if (grandTotal <= 0) { ... }`
Settled(totals) ==
  IF NumLe(EntrySum(totals, 1), Num(0))
  THEN [i \in 1..Len(totals) |->
          [totals[i] EXCEPT !.stats.amount = FirstNonZero(totals[i].stats)]]
  ELSE totals

\* Array.prototype.sort is stable: the place of entry i among the entries
\* ordered by descending amount
PlaceOf(totals, i) ==
  1 + Cardinality({j \in 1..Len(totals) :
                     \/ NumGt(totals[j].stats.amount, totals[i].stats.amount)
                     \/ (totals[j].stats.amount = totals[i].stats.amount /\ j < i)})
Sorted(totals) ==
  [p \in 1..Len(totals) |-> totals[CHOOSE i \in 1..Len(totals) : PlaceOf(totals, i) = p]]

PaletteSize == 8
\* the rows buildDistribution returns for the settled, sorted entries and the
\* grand total over them; color is the index into colorPalette
Distribution(sorted, grandTotal) ==
  [p \in 1..Len(sorted) |->
     [name |-> sorted[p].name,
      amount |-> sorted[p].stats.amount,
      percent |-> IF NumGt(grandTotal, Num(0))
                  THEN NumMul(NumDiv(sorted[p].stats.amount, grandTotal), Num(100))
                  ELSE Num(0),
      spend |-> sorted[p].stats.spend,
      impressions |-> sorted[p].stats.impressions,
      clicks |-> sorted[p].stats.clicks,
      results |-> sorted[p].stats.results,
      color |-> (p - 1) % PaletteSize]]

buildDistribution(list) ==
  Distribution(Sorted(Settled(Totals(list))), EntrySum(Settled(Totals(list)), 1))

(***************************************************************************)
(* Custom metrics.  A formula is kept as its text; FormulaShape gives what *)
(* `new Function(...args, "return " + formula)` makes of the texts of the  *)
(* model: a syntax error, or the quotient of two operands, each a field    *)
(* name or a number literal.                                               *)
(***************************************************************************)
MaxRows == 2
MaxMetrics == 2

defaultFormula == "(results * 15) / spend"
FormulaShape(text) ==
  CASE text = "spend / clicks" -> [ok |-> TRUE, num |-> "spend", den |-> "clicks"]
    [] text = " spend / clicks " -> [ok |-> TRUE, num |-> "spend", den |-> "clicks"]
    [] text = "actions_link_click / spend" -> [ok |-> TRUE, num |-> "actions_link_click", den |-> "spend"]
    [] text = "spend / 0" -> [ok |-> TRUE, num |-> "spend", den |-> "0"]
    [] OTHER -> [ok |-> FALSE, num |-> "", den |-> ""]
\* formula.trim() for the texts of the model
TrimFormula(text) == IF text = " spend / clicks " THEN "spend / clicks" ELSE text
IsLiteral(operand) == operand = "0"

\* baseMetricSeed and, of facebookMetricNumericFields, the fields the rows of
\* the model carry
baseMetricFields ==
  {"impressions", "clicks", "spend", "results", "ctr", "cpc", "cpm", "cost_per_result", "roas",
   "value", "result_rate", "action_values_purchase", "actions_purchase", "actions_lead"}

\* the memo availableMetricFields, as a set
FieldsOfRow(row) ==
  {k \in DOMAIN row.o : isSafeMetricKey(k) /\ row.o[k].t = "number" /\ IsFinite(row.o[k])}
    \cup {k \in DOMAIN row.raw : isSafeMetricKey(k) /\ toFiniteNumber(row.raw[k]) # Null}
availableMetricFields(detail) ==
  baseMetricFields \cup UNION {FieldsOfRow(detail[i]) : i \in 1..Len(detail)}

getMetricValue(row, key) ==
  IF toFiniteNumber(Get(row.o, key)) # Null THEN toFiniteNumber(Get(row.o, key))
  ELSE IF toFiniteNumber(Get(row.raw, key)) # Null THEN toFiniteNumber(Get(row.raw, key))
  ELSE Num(0)

\* createMetricEvaluator returns null (the catch) exactly on a syntax error
Compiles(text) == FormulaShape(text).ok

\* the evaluator on a row: an identifier that is not among args is a free
\* variable of the function and reading it throws ReferenceError
Unbound(shape, args) ==
  \/ ~IsLiteral(shape.num) /\ shape.num \notin args
  \/ ~IsLiteral(shape.den) /\ shape.den \notin args
Operand(operand, row) == IF IsLiteral(operand) THEN Num(0) ELSE getMetricValue(row, operand)
\* Number.isFinite(result) ? Number(result) : NaN
EvaluatorValue(shape, row) ==
  IF IsFinite(NumDiv(Operand(shape.num, row), Operand(shape.den, row)))
  THEN NumDiv(Operand(shape.num, row), Operand(shape.den, row))
  ELSE NaN

\* handleSubmit of the builder accepts the formula: it compiles and evaluates
\* to a finite number on the sample row that maps every field to 1
sampleRow(fieldSet) == [o |-> [k \in fieldSet |-> Num(1)], raw |-> EmptyRow]
Accepted(text, fieldSet) ==
  /\ Compiles(text)
  /\ ~Unbound(FormulaShape(text), fieldSet)
  /\ IsFinite(EvaluatorValue(FormulaShape(text), sampleRow(fieldSet)))

\* name.trim() and the slug name.toLowerCase().replace(/[^a-z0-9]+/g, "_") for
\* the names of the model
TrimName(text) == IF text = " " THEN "" ELSE text
Slug(name) ==
  CASE name = "ROAS" -> "roas"
    [] name = "Roas 1" -> "roas_1"
    [] name = "Custom Metric" -> "custom_metric"
    [] OTHER -> ""
\* the payload the builder hands to onSubmit
Payload(name, text) ==
  [name |-> IF TrimName(name) = "" THEN "Custom Metric" ELSE TrimName(name),
   formula |-> IF TrimFormula(text) = "" THEN defaultFormula ELSE TrimFormula(text)]

Ids(metrics) == {metrics[i].id : i \in 1..Len(metrics)}
Suffixed(baseId, i) == baseId \o "_" \o ToString(i)
\* variant: a taken id is used again
FreshId_NoSuffix(existing, baseId) == baseId
\* let id = baseId; let i = 1; while (existing.has(id)) id = `${baseId}_${i++}`
FreshId(existing, baseId) ==
  IF baseId \notin existing THEN baseId
  ELSE Suffixed(baseId,
                CHOOSE i \in 1..(Cardinality(existing) + 1) :
                  /\ Suffixed(baseId, i) \notin existing
                  /\ \A j \in 1..(i - 1) : Suffixed(baseId, j) \in existing)

\* the updater of addCustomMetric; Date.now() is left as the text "now"
AddedMetric(prev, metric) ==
  LET name == IF TrimName(metric.name) = ""
              THEN "Custom Metric " \o ToString(Len(prev) + 1) ELSE TrimName(metric.name)
  IN [id |-> FreshId(Ids(prev), IF Slug(name) = "" THEN "metric_now" ELSE Slug(name)),
      name |-> name, formula |-> metric.formula, enabled |-> TRUE]

\* the updater of updateCustomMetric on one metric; updates holds name and
\* formula, both non-empty strings
UpdatedMetric(metric, updates) ==
  [metric EXCEPT !.name = IF TrimName(updates.name) = "" THEN metric.name ELSE TrimName(updates.name),
                 !.formula = TrimFormula(updates.formula)]

\* the memos compiledMetrics and tableRowsWithCustom over tableRows (the
\* aggregated rows, unfiltered): a metric whose evaluator throws ends the render
compiledMetrics(metrics) == SelectSeq(metrics, LAMBDA m : m.enabled /\ Compiles(m.formula))
RenderThrows(table, compiled, fieldSet) ==
  table # <<>> /\ \E c \in 1..Len(compiled) : Unbound(FormulaShape(compiled[c].formula), fieldSet)
CustomValue(value) == IF IsFinite(value) THEN value ELSE Null
CustomValues(table, compiled) ==
  [r \in 1..Len(table) |->
     [id \in Ids(compiled) |->
        CustomValue(EvaluatorValue(
          FormulaShape(compiled[CHOOSE c \in 1..Len(compiled) : compiled[c].id = id].formula),
          table[r]))]]

\* what the render after a state change leaves: the distribution memo and the
\* table memo, or the crash
Render(table, platform, metrics, fieldSet) ==
  /\ platformDistribution' = buildDistribution(platform)
  /\ IF RenderThrows(table, compiledMetrics(metrics), fieldSet)
     THEN view' = "crashed" /\ tableRowsWithCustom' = <<>>
     ELSE view' = "ready" /\ tableRowsWithCustom' = CustomValues(table, compiledMetrics(metrics))

(***************************************************************************)
(* The settings in localStorage.  JSON.stringify keeps of a metric its     *)
(* members id, name, formula (strings) and enabled (a boolean); JSON.parse *)
(* gives them back as the members of an object.                            *)
(***************************************************************************)
True == [t |-> "boolean", s |-> "true", n |-> 1, d |-> 1]
False == [t |-> "boolean", s |-> "false", n |-> 0, d |-> 1]

StoredMetric(metric) ==
  [k \in {"id", "name", "formula", "enabled"} |->
     CASE k = "id" -> Str(metric.id)
       [] k = "name" -> Str(metric.name)
       [] k = "formula" -> Str(metric.formula)
       [] OTHER -> IF metric.enabled THEN True ELSE False]
StoredList(metrics) == [i \in 1..Len(metrics) |-> StoredMetric(metrics[i])]

\* updateStoredSettings({ customMetrics: metrics })
updateStoredSettings(metrics) == stored' = <<StoredList(metrics)>>

\* typeof entry.formula === "string" ? entry.formula.trim() : ""
FormulaOf(entry) ==
  IF Get(entry, "formula").t = "string" THEN TrimFormula(entry["formula"].s) ELSE ""
\* variant: a restored metric is always enabled
EnabledOf_Always(entry) == TRUE
\* entry.enabled !== false
EnabledOf(entry) == Get(entry, "enabled") # False
\* the entries that are kept: objects with a formula that is not blank
KeptEntries(list) == SelectSeq([i \in 1..Len(list) |-> <<i, list[i]>>], LAMBDA e : FormulaOf(e[2]) # "")
\* the metric pushed for the p-th kept entry, entry number index (from 0) of the list
SanitizedMetric(entry, p, index) ==
  [id |-> IF Falsy(Get(entry, "id")) THEN "metric_now_" \o ToString(index) ELSE entry["id"].s,
   name |-> IF Get(entry, "name").t = "string" THEN entry["name"].s
            ELSE "Custom Metric " \o ToString(p),
   formula |-> FormulaOf(entry),
   enabled |-> EnabledOf(entry)]
sanitizeStoredMetrics(list) ==
  [p \in 1..Len(KeptEntries(list)) |->
     SanitizedMetric(KeptEntries(list)[p][2], p, KeptEntries(list)[p][1] - 1)]

(***************************************************************************)
(* The load callback.  A loadData call that sent its requests is kept in   *)
(* inFlight until its Promise.all settles: n is its number, main and       *)
(* platform are the rows and removed the removedFields the server answers  *)
(* with, excluded is the excludedInsightFields its closure holds.          *)
(***************************************************************************)
MaxRefreshes == 2

\* variant: the rows stored are those of the call sent last
StoredResponse_Newest(r) ==
  IF \E q \in inFlight : q.n > r.n THEN CHOOSE q \in inFlight : \A x \in inFlight : q.n >= x.n
  ELSE r
\* const [main, platform, ...] = await Promise.all(...)
StoredResponse(r) == r

\* the head of the load callback past its early return: setIsLoading(true),
\* the error is cleared unless fields were just removed, the requests are sent.
\* effectiveAccountIds is not empty: the accounts come with the configuration
\* or with the settings restored after it.
StartLoad(main, platform, removed) ==
  /\ view = "ready"
  /\ configLoaded
  /\ triggered < MaxRefreshes
  /\ isLoading' = TRUE
  /\ errorMessage' = IF autoRemovedFields = {} THEN "" ELSE errorMessage
  /\ triggered' = triggered + 1
  /\ inFlight' = inFlight \cup {[n |-> triggered', main |-> main, platform |-> platform,
                                 removed |-> removed, excluded |-> excludedInsightFields]}
  /\ UNCHANGED <<view, mainResponse, platformResponse, detailRows, rawRows, platformRows,
                 platformDistribution, customMetrics, tableRowsWithCustom, applied, lastUpdated,
                 autoRemovedFields, excludedInsightFields>>
  /\ UNCHANGED storageVars
  /\ UNCHANGED handlerVars
  /\ UNCHANGED flattenVars

\* the early return of the load callback: no account or no field to ask for
ClearData ==
  /\ view = "ready"
  /\ detailRows' = <<>>
  /\ rawRows' = <<>>
  /\ platformRows' = <<>>
  /\ lastUpdated' = <<>>
  /\ Render(rawRows', platformRows', customMetrics, availableMetricFields(detailRows'))
  /\ UNCHANGED <<isLoading, mainResponse, platformResponse, customMetrics, inFlight, triggered,
                 applied, errorMessage, autoRemovedFields, excludedInsightFields>>
  /\ UNCHANGED storageVars
  /\ UNCHANGED handlerVars
  /\ UNCHANGED flattenVars

\* the five requests of call r succeeded and main.removedFields names a field
\* not excluded yet: the fields are excluded and nothing is stored
FieldsRemoved(r) ==
  /\ autoRemovedFields' = r.removed \ r.excluded
  /\ errorMessage' = "Removed unsupported insight fields (retrying)"
  /\ excludedInsightFields' = excludedInsightFields \cup (r.removed \ r.excluded)
  /\ UNCHANGED <<view, mainResponse, platformResponse, detailRows, rawRows, platformRows,
                 platformDistribution, tableRowsWithCustom, applied, lastUpdated>>

\* the five requests of call r succeeded: the rows of the main request and of
\* the publisher_platform breakdown (placements, gender and region are
\* treated like it) are normalised and stored
RowsStored(r, answer) ==
  /\ detailRows' = [i \in 1..Len(answer.main) |-> normalizeMainRow(answer.main[i])]
  /\ rawRows' = aggregateByCampaign(detailRows')
  /\ platformRows' = normalizeBreakdownRows(answer.platform, "publisher_platform")
  /\ mainResponse' = answer.main
  /\ platformResponse' = answer.platform
  /\ applied' = Append(applied, r)
  /\ lastUpdated' = <<Len(applied')>>
  /\ errorMessage' = IF autoRemovedFields # {} THEN "Removed unsupported insight fields" ELSE ""
  /\ autoRemovedFields' = {}
  /\ Render(rawRows', platformRows', customMetrics, availableMetricFields(detailRows'))
  /\ UNCHANGED excludedInsightFields

\* the tail of the load callback of call r after its Promise.all resolved,
\* with the finally block
LoadData(r) ==
  /\ view = "ready"
  /\ r \in inFlight
  /\ inFlight' = inFlight \ {r}
  /\ isLoading' = FALSE
  /\ IF r.removed \ r.excluded # {} THEN FieldsRemoved(r) ELSE RowsStored(r, StoredResponse(r))
  /\ UNCHANGED <<customMetrics, triggered>>
  /\ UNCHANGED storageVars
  /\ UNCHANGED handlerVars
  /\ UNCHANGED flattenVars

\* variant: the catch block leaves the error as it was
FailureMessage_Kept(invalidField, excluded) == {errorMessage}
\* the error the catch block sets: the message of the failure, or the notice
\* of a retry when the message names a field that was not excluded yet
FailureMessage(invalidField, excluded) ==
  IF invalidField = <<>> \/ invalidField[1] \in excluded
  THEN {"Unable to load insights"}
  ELSE {"Removed unsupported field and retrying", "Unable to load insights"}

\* one of the five requests of call r failed: the catch and the finally block
LoadFailed(r, invalidField) ==
  /\ view = "ready"
  /\ r \in inFlight
  /\ inFlight' = inFlight \ {r}
  /\ isLoading' = FALSE
  /\ errorMessage' \in FailureMessage(invalidField, excludedInsightFields)
  /\ excludedInsightFields' = excludedInsightFields \cup Range(invalidField)
  /\ UNCHANGED <<view, mainResponse, platformResponse, detailRows, rawRows, platformRows,
                 platformDistribution, customMetrics, tableRowsWithCustom, triggered, applied,
                 lastUpdated, autoRemovedFields>>
  /\ UNCHANGED storageVars
  /\ UNCHANGED handlerVars
  /\ UNCHANGED flattenVars

\* builder handleSubmit, manager handleSubmit with no metric being edited,
\* addCustomMetric
CreateMetric(name, text) ==
  /\ view = "ready"
  /\ Accepted(text, availableMetricFields(detailRows))
  /\ Len(customMetrics) < MaxMetrics
  /\ customMetrics' = Append(customMetrics, AddedMetric(customMetrics, Payload(name, text)))
  /\ updateStoredSettings(customMetrics')
  /\ Render(rawRows, platformRows, customMetrics', availableMetricFields(detailRows))
  /\ UNCHANGED <<isLoading, mainResponse, platformResponse, detailRows, rawRows, platformRows,
                 configLoaded>>
  /\ UNCHANGED refreshVars
  /\ UNCHANGED handlerVars
  /\ UNCHANGED flattenVars

\* the same with the metric id being edited: updateCustomMetric
EditMetric(id, name, text) ==
  /\ view = "ready"
  /\ id \in Ids(customMetrics)
  /\ Accepted(text, availableMetricFields(detailRows))
  /\ customMetrics' = [i \in 1..Len(customMetrics) |->
                         IF customMetrics[i].id # id THEN customMetrics[i]
                         ELSE UpdatedMetric(customMetrics[i], Payload(name, text))]
  /\ updateStoredSettings(customMetrics')
  /\ Render(rawRows, platformRows, customMetrics', availableMetricFields(detailRows))
  /\ UNCHANGED <<isLoading, mainResponse, platformResponse, detailRows, rawRows, platformRows,
                 configLoaded>>
  /\ UNCHANGED refreshVars
  /\ UNCHANGED handlerVars
  /\ UNCHANGED flattenVars

removeCustomMetric(id) ==
  /\ view = "ready"
  /\ customMetrics' = SelectSeq(customMetrics, LAMBDA m : m.id # id)
  /\ updateStoredSettings(customMetrics')
  /\ Render(rawRows, platformRows, customMetrics', availableMetricFields(detailRows))
  /\ UNCHANGED <<isLoading, mainResponse, platformResponse, detailRows, rawRows, platformRows,
                 configLoaded>>
  /\ UNCHANGED refreshVars
  /\ UNCHANGED handlerVars
  /\ UNCHANGED flattenVars

setMetricEnabled(id, enabled) ==
  /\ view = "ready"
  /\ customMetrics' = [i \in 1..Len(customMetrics) |->
                         IF customMetrics[i].id = id
                         THEN [customMetrics[i] EXCEPT !.enabled = enabled]
                         ELSE customMetrics[i]]
  /\ updateStoredSettings(customMetrics')
  /\ Render(rawRows, platformRows, customMetrics', availableMetricFields(detailRows))
  /\ UNCHANGED <<isLoading, mainResponse, platformResponse, detailRows, rawRows, platformRows,
                 configLoaded>>
  /\ UNCHANGED refreshVars
  /\ UNCHANGED handlerVars
  /\ UNCHANGED flattenVars

\* the page is loaded again: the component state starts over, localStorage
\* stays, and the answers to the requests of the page before are lost
Reload ==
  /\ view \in {"ready", "crashed"}
  /\ view' = "ready"
  /\ isLoading' = FALSE
  /\ mainResponse' = <<>>
  /\ platformResponse' = <<>>
  /\ detailRows' = <<>>
  /\ rawRows' = <<>>
  /\ platformRows' = <<>>
  /\ platformDistribution' = <<>>
  /\ customMetrics' = <<>>
  /\ tableRowsWithCustom' = <<>>
  /\ inFlight' = {}
  /\ triggered' = 0
  /\ applied' = <<>>
  /\ lastUpdated' = <<>>
  /\ errorMessage' = ""
  /\ autoRemovedFields' = {}
  /\ excludedInsightFields' = {}
  /\ configLoaded' = FALSE
  /\ UNCHANGED stored
  /\ UNCHANGED handlerVars
  /\ UNCHANGED flattenVars

\* the restore effect on the stored list saved.customMetrics
RestoreMetrics(restored) ==
  IF Len(restored) > 0
  THEN /\ customMetrics' = restored
       /\ updateStoredSettings(restored)
       /\ Render(rawRows, platformRows, restored, availableMetricFields(detailRows))
  ELSE UNCHANGED <<customMetrics, stored, view, platformDistribution, tableRowsWithCustom>>

\* loadConfig ends (finally: setConfigLoaded(true)) and the restore effect,
\* which waits for configLoaded, runs
ConfigLoaded ==
  /\ view = "ready"
  /\ ~configLoaded
  /\ configLoaded' = TRUE
  /\ IF stored = <<>>
     THEN UNCHANGED <<customMetrics, stored, view, platformDistribution, tableRowsWithCustom>>
     ELSE RestoreMetrics(sanitizeStoredMetrics(stored[1]))
  /\ UNCHANGED <<isLoading, mainResponse, platformResponse, detailRows, rawRows, platformRows>>
  /\ UNCHANGED refreshVars
  /\ UNCHANGED handlerVars
  /\ UNCHANGED flattenVars

(***************************************************************************)
(* Responses of the server the client is run on.  A FlatRow is put         *)
(* together from parts: identity, impressions, clicks, spend and the       *)
(* further metrics it carries.                                             *)
(***************************************************************************)
Member(k, v) == [x \in {k} |-> v]
IdParts ==
  {EmptyRow,
   Member("campaign_id", Str("1")) @@ Member("campaign_name", Str("c"))
     @@ Member("date_start", Str("2024-01-01")),
   Member("campaign_id", Str("2")) @@ Member("campaign_name", Str("d"))
     @@ Member("date_start", Str("2024-01-02"))}
ImpressionParts == {EmptyRow, Member("impressions", Str("0")), Member("impressions", Str("100"))}
ClickParts ==
  {EmptyRow, Member("clicks", Str("2")), Member("clicks", Str("3")),
   Member("outbound_clicks_total", Num(3))}
SpendParts == {EmptyRow, Member("spend", Str("10")), Member("spend", Str("20"))}
CarriedParts ==
  {EmptyRow,
   Member("ctr", Str("2.5")) @@ Member("cpm", Str("100")) @@ Member("cpc", Str("5")),
   Member("actions_purchase", Num(4)) @@ Member("results", Num(4))
     @@ Member("cost_per_result", Rat(5, 2)) @@ Member("result_rate", Rat(1, 25)),
   Member("actions_purchase", Num(4)) @@ Member("action_values_purchase", Num(20))
     @@ Member("purchase_roas_purchase", Num(3)),
   Member("action_values_purchase", Num(20)),
   Member("action_values_purchase", Num(20)) @@ Member("purchase_roas_purchase", Num(0)),
   Member("7d_click", Str("3")) @@ Member("frequency", Str(" 7 ")) @@ Member("reach", Str(" "))
     @@ Member("objective", Str("SALES"))}

\* the rows of the responses with several rows
SeriesRows ==
  {id @@ Member("impressions", Str(m[1])) @@ Member("clicks", Str(m[2])) @@ Member("spend", Str(m[3])) @@ c :
     id \in IdParts \ {EmptyRow},
     m \in {<<"100", "2", "10">>, <<"100", "3", "20">>, <<"0", "1", "5">>},
     c \in {EmptyRow, Member("actions_purchase", Num(4)) @@ Member("action_values_purchase", Num(20)),
            Member("account_id", Str("7")) @@ Member("result_rate", Rat(1, 25))
              @@ Member("frequency", Str("2.5"))}}

\* the rows of a breakdown response
BreakdownRows ==
  {b @@ Member(m[1], Str(m[2])) @@ x :
     b \in {EmptyRow, Member("publisher_platform", Str("facebook")),
            Member("publisher_platform", Str("instagram"))},
     m \in {<<"spend", "10">>, <<"spend", "0">>, <<"spend", "-5">>, <<"impressions", "100">>,
            <<"clicks", "3">>},
     x \in {EmptyRow, Member("results", Num(4))}}

\* the first load in progress on a client that has loaded its configuration
Loading(main, platform) ==
  /\ InitHandler
  /\ raw = NoRaw
  /\ flat = NoFlat
  /\ stage = "off"
  /\ view = "ready"
  /\ isLoading = TRUE
  /\ mainResponse = <<>>
  /\ platformResponse = <<>>
  /\ detailRows = <<>>
  /\ rawRows = <<>>
  /\ platformRows = <<>>
  /\ platformDistribution = <<>>
  /\ customMetrics = <<>>
  /\ tableRowsWithCustom = <<>>
  /\ inFlight = {[n |-> 1, main |-> main, platform |-> platform, removed |-> {}, excluded |-> {}]}
  /\ triggered = 1
  /\ applied = <<>>
  /\ lastUpdated = <<>>
  /\ errorMessage = ""
  /\ autoRemovedFields = {}
  /\ excludedInsightFields = {}
  /\ stored = <<>>
  /\ configLoaded = TRUE

InitLoad ==
  \/ \E id \in IdParts, im \in ImpressionParts, cl \in ClickParts, sp \in SpendParts,
        c \in CarriedParts :
       Loading(<<id @@ im @@ cl @@ sp @@ c>>, <<>>)
  \/ \E main \in SeqsUpTo(SeriesRows, MaxRows) : Loading(main, <<>>)
  \/ \E platform \in SeqsUpTo(BreakdownRows, MaxRows) : Loading(<<>>, platform)

NextLoad == \E r \in inFlight : LoadData(r)

SpecLoad == InitLoad /\ [][NextLoad]_vars

\* custom metrics: the loaded rows do or do not carry the metric
\* actions_link_click
WithLinkClicks ==
  <<Member("campaign_id", Str("1")) @@ Member("spend", Str("10")) @@ Member("clicks", Str("2"))
      @@ Member("actions_link_click", Num(3))>>
WithoutLinkClicks == <<Member("campaign_id", Str("2")) @@ Member("spend", Str("20"))>>
\* what the user types into the builder: name and formula
BuilderInputs ==
  {<<"ROAS", " spend / clicks ">>, <<"Roas 1", "actions_link_click / spend">>,
   <<" ", "spend / 0">>, <<"ROAS", "spend /">>}

NextMetrics ==
  \/ StartLoad(WithoutLinkClicks, <<>>, {})
  \/ \E r \in inFlight : LoadData(r)
  \/ \E typed \in BuilderInputs : CreateMetric(typed[1], typed[2])
  \/ \E id \in Ids(customMetrics), typed \in BuilderInputs : EditMetric(id, typed[1], typed[2])
  \/ \E id \in Ids(customMetrics) : removeCustomMetric(id)
  \/ \E i \in 1..Len(customMetrics) :
       setMetricEnabled(customMetrics[i].id, ~customMetrics[i].enabled)

\* the client is mounted and its first load is in progress
InitMetrics == Loading(WithLinkClicks, <<>>)

SpecMetrics == InitMetrics /\ [][NextMetrics]_vars

\* the settings in localStorage over page loads: the first page has loaded
\* its configuration and its first load is in progress
InitSettings == Loading(WithLinkClicks, <<>>)

NextSettings ==
  \/ \E r \in inFlight : LoadData(r)
  \/ \E typed \in BuilderInputs : CreateMetric(typed[1], typed[2])
  \/ \E id \in Ids(customMetrics), typed \in BuilderInputs : EditMetric(id, typed[1], typed[2])
  \/ \E id \in Ids(customMetrics) : removeCustomMetric(id)
  \/ \E i \in 1..Len(customMetrics) :
       setMetricEnabled(customMetrics[i].id, ~customMetrics[i].enabled)
  \/ Reload
  \/ ConfigLoaded

SpecSettings == InitSettings /\ [][NextSettings]_vars

\* overlapping loads: what the server answers to a load, and the field a
\* failure message names
RefreshAnswers ==
  {[main |-> WithLinkClicks, platform |-> <<>>, removed |-> {}],
   [main |-> WithoutLinkClicks,
    platform |-> <<Member("publisher_platform", Str("facebook")) @@ Member("spend", Str("10"))>>,
    removed |-> {}],
   [main |-> WithoutLinkClicks, platform |-> <<>>, removed |-> {"reach"}]}
InvalidFields == {<<>>, <<"reach">>}

InitRefresh ==
  /\ InitHandler
  /\ raw = NoRaw
  /\ flat = NoFlat
  /\ stage = "off"
  /\ InitClient("ready")

NextRefresh ==
  \/ ConfigLoaded
  \/ \E a \in RefreshAnswers : StartLoad(a.main, a.platform, a.removed)
  \/ \E r \in inFlight : LoadData(r)
  \/ \E r \in inFlight, f \in InvalidFields : LoadFailed(r, f)
  \/ ClearData

SpecRefresh == InitRefresh /\ [][NextRefresh]_vars

(***************************************************************************)
(* Properties of the client.                                               *)
(***************************************************************************)
\* the load is done: detailRows[i] is the normalised mainResponse[i]
Loaded == view = "ready" /\ ~isLoading
ZeroImpressions(row) ==
  "impressions" \notin DOMAIN row \/ row["impressions"] \in {Str("0"), Num(0)}

\* C13: for a FlatRow whose impressions are 0 or absent, the normalised row
\* has ctr = 0, cpm = 0 and result_rate = 0 (finite numbers, never undefined),
\* also when the FlatRow carries ctr, cpm or result_rate itself.
C13_ZeroImpressionRates ==
  Loaded =>
    \A i \in 1..Len(detailRows) :
      ZeroImpressions(mainResponse[i]) =>
        /\ Get(detailRows[i].o, "ctr") = Num(0)
        /\ Get(detailRows[i].o, "cpm") = Num(0)
        /\ Get(detailRows[i].o, "result_rate") = Num(0)

\* the quotient the claim prescribes, 0 on a zero denominator
ExpectedRatio(num, den) == IF den.n = 0 THEN Num(0) ELSE Rat(num.n * den.d, num.d * den.n)

\* C14: in every normalised row ctr = clicks / impressions,
\* cpm = spend / impressions * 1000, cpc = spend / clicks and
\* cost_per_result = spend / results over the fields of that same row, 0 when
\* the denominator is 0.
C14_RatiosOfOwnFields ==
  Loaded =>
    \A i \in 1..Len(detailRows) :
      LET o == detailRows[i].o
      IN /\ o.ctr = ExpectedRatio(o.clicks, o.impressions)
         /\ o.cpm = NumMul(ExpectedRatio(o.spend, o.impressions), Num(1000))
         /\ o.cpc = ExpectedRatio(o.spend, o.clicks)
         /\ o.cost_per_result = ExpectedRatio(o.spend, o.results)

\* the roas the claim prescribes from the upstream values of a FlatRow
ExpectedRoas(upstream, actionValues, spend) ==
  IF upstream.n > 0 THEN upstream
  ELSE IF spend.n > 0 /\ actionValues.n > 0 THEN Rat(actionValues.n * spend.d, actionValues.d * spend.n)
  ELSE Num(0)

\* C15: roas of a normalised row is the upstream purchase_roas_purchase when
\* that is positive, otherwise action_values_purchase / spend when both are
\* positive, otherwise 0: a positive upstream value always wins.
C15_RoasPrefersUpstream ==
  Loaded =>
    \A i \in 1..Len(detailRows) :
      detailRows[i].o.roas
        = ExpectedRoas(safeNumber(Get(mainResponse[i], "purchase_roas_purchase")),
                       safeNumber(Get(mainResponse[i], "action_values_purchase")),
                       safeNumber(Get(mainResponse[i], "spend")))

C15_Witness ==
  /\ Loaded
  /\ \E i \in 1..Len(detailRows) :
       /\ Get(mainResponse[i], "purchase_roas_purchase") = Num(3)
       /\ Get(mainResponse[i], "action_values_purchase") = Num(20)
       /\ Get(mainResponse[i], "spend") = Str("10")
       /\ detailRows[i].o.roas = Num(3)

\* the member values of the modelled FlatRows that coerce to a finite number,
\* written out with the number they coerce to
Coercible(v) ==
  \/ v.t = "number" /\ v.s = "" /\ v.d > 0
  \/ v \in {Str("0"), Str("1"), Str("2"), Str("3"), Str("5"), Str("7"), Str("10"), Str("20"),
            Str("100"), Str("2.5"), Str(" 7 ")}
Coerced(v) ==
  CASE v.t = "number" -> v
    [] v = Str("0") -> Num(0)
    [] v = Str("1") -> Num(1)
    [] v = Str("2") -> Num(2)
    [] v = Str("3") -> Num(3)
    [] v = Str("5") -> Num(5)
    [] v = Str("7") -> Num(7)
    [] v = Str("10") -> Num(10)
    [] v = Str("20") -> Num(20)
    [] v = Str("100") -> Num(100)
    [] v = Str("2.5") -> Rat(5, 2)
    [] v = Str(" 7 ") -> Num(7)
\* key matches ^[a-zA-Z_][a-zA-Z0-9_]*$, for the keys of the modelled FlatRows
MatchesKeyPattern(key) == key \notin {"7d_click"}
FiniteNumber(v) == v.t = "number" /\ v.s = "" /\ v.d > 0

\* what the claim makes of member key = value of the FlatRow, merged into the
\* row before (a function of its keys)
ExpectedMerge(before, key, value) ==
  IF ~MatchesKeyPattern(key) \/ ~Coercible(value) THEN before
  ELSE IF key \in DOMAIN before /\ FiniteNumber(before[key])
       THEN [before EXCEPT ![key] = Rat(@.n * Coerced(value).d + Coerced(value).n * @.d,
                                        @.d * Coerced(value).d)]
  ELSE [k \in DOMAIN before \cup {key} |-> IF k = key THEN Coerced(value) ELSE before[k]]

\* C16: merging a member of the FlatRow leaves the row unchanged when the key
\* fails ^[a-zA-Z_][a-zA-Z0-9_]*$ or the value does not coerce to a finite
\* number; otherwise it adds the value to an existing finite number and
\* replaces an absent or non-numeric field by it.
C16_MergeNumeric ==
  Loaded =>
    \A i \in 1..Len(detailRows) :
      /\ DOMAIN detailRows[i].o \subseteq DOMAIN NormalizedBase(mainResponse[i]) \cup DOMAIN mainResponse[i]
      /\ \A k \in DOMAIN NormalizedBase(mainResponse[i]) \ DOMAIN mainResponse[i] :
           detailRows[i].o[k] = NormalizedBase(mainResponse[i])[k]
      /\ \A k \in DOMAIN mainResponse[i] :
           LET expected == ExpectedMerge(NormalizedBase(mainResponse[i]), k, mainResponse[i][k])
           IN /\ k \in DOMAIN detailRows[i].o <=> k \in DOMAIN expected
              /\ k \in DOMAIN expected => detailRows[i].o[k] = expected[k]

\* one row shows the four cases: spend added to, campaign_id (a string) and
\* frequency (absent) replaced, 7d_click (bad key) and objective (not a
\* number) not merged
C16_Witness ==
  /\ Loaded
  /\ \E i \in 1..Len(detailRows) :
       /\ Get(mainResponse[i], "spend") = Str("10") /\ Get(detailRows[i].o, "spend") = Num(20)
       /\ Get(mainResponse[i], "campaign_id") = Str("1") /\ Get(detailRows[i].o, "campaign_id") = Num(1)
       /\ Get(mainResponse[i], "frequency") = Str(" 7 ") /\ Get(detailRows[i].o, "frequency") = Num(7)
       /\ "7d_click" \in DOMAIN mainResponse[i] /\ "7d_click" \notin DOMAIN detailRows[i].o
       /\ "objective" \in DOMAIN mainResponse[i] /\ "objective" \notin DOMAIN detailRows[i].o
       /\ "reach" \in DOMAIN mainResponse[i] /\ "reach" \notin DOMAIN detailRows[i].o

\* the grouping key the claim names: campaign_id, else id, else
\* raw.campaign_id, else name
ExpectedGroupKey(row) ==
  IF ~Falsy(row.o.campaign_id) THEN row.o.campaign_id
  ELSE IF ~Falsy(row.o.id) THEN row.o.id
  ELSE IF ~Falsy(Get(row.raw, "campaign_id")) THEN row.raw["campaign_id"]
  ELSE row.o.name

RECURSIVE ExpectedSum(_, _, _)
\* the sum of field k over the rows of list with an index in S
ExpectedSum(list, S, k) ==
  IF S = {} THEN Num(0)
  ELSE LET i == CHOOSE x \in S : TRUE
           rest == ExpectedSum(list, S \ {i}, k)
       IN Rat(list[i].o[k].n * rest.d + rest.n * list[i].o[k].d, list[i].o[k].d * rest.d)

\* C17: aggregateByCampaign returns one row per distinct grouping key;
\* impressions, clicks, spend, results and value of that row are the sums over
\* the rows of the group, and ctr, cpm, cpc and cost_per_result are recomputed
\* from those sums (0 on a zero denominator), never averaged.
C17_AggregatedByCampaign ==
  Loaded =>
    LET keyed == {i \in 1..Len(detailRows) : ~Falsy(ExpectedGroupKey(detailRows[i]))}
        keys == {ExpectedGroupKey(detailRows[i]) : i \in keyed}
    IN /\ Len(rawRows) = Cardinality(keys)
       /\ \A id \in keys :
            \E g \in 1..Len(rawRows) :
              /\ ExpectedGroupKey(rawRows[g]) = id
              /\ \A k \in {"impressions", "clicks", "spend", "results", "value"} :
                   rawRows[g].o[k]
                     = ExpectedSum(detailRows, {i \in keyed : ExpectedGroupKey(detailRows[i]) = id}, k)
       /\ \A g \in 1..Len(rawRows) :
            LET o == rawRows[g].o
            IN /\ o.ctr = ExpectedRatio(o.clicks, o.impressions)
               /\ o.cpm = NumMul(ExpectedRatio(o.spend, o.impressions), Num(1000))
               /\ o.cpc = ExpectedRatio(o.spend, o.clicks)
               /\ o.cost_per_result = ExpectedRatio(o.spend, o.results)

\* two rows of one campaign with spend 20 and 40, clicks 4 and 6, impressions
\* 200 and 200 give one row with spend 60 and ctr 10 / 400
C17_Witness ==
  /\ Loaded
  /\ Len(detailRows) = 2
  /\ detailRows[1].o.spend = Num(20) /\ detailRows[2].o.spend = Num(40)
  /\ detailRows[1].o.clicks = Num(4) /\ detailRows[2].o.clicks = Num(6)
  /\ Len(rawRows) = 1
  /\ rawRows[1].o.spend = Num(60)
  /\ rawRows[1].o.impressions = Num(400)
  /\ rawRows[1].o.ctr = Rat(10, 400)

RECURSIVE PercentSum(_, _)
PercentSum(dist, i) ==
  IF i > Len(dist) THEN Num(0) ELSE NumAdd(dist[i].percent, PercentSum(dist, i + 1))
NonZeroRow(row) ==
  \E k \in {"spend", "value", "results", "clicks", "impressions"} : row[k] # Num(0)

\* C18: for a non-empty list of breakdown rows of which at least one has a
\* nonzero spend, value, results, clicks or impressions, the percents of the
\* buckets of buildDistribution sum to 100.
C18_PercentsSumTo100 ==
  (Loaded /\ \E i \in 1..Len(platformRows) : NonZeroRow(platformRows[i]))
    => PercentSum(platformDistribution, 1) = Num(100)

\* C19: a formula error never crashes the table: whatever custom metrics are
\* stored, computing the table rows with their custom values completes
\* without throwing (a metric that does not evaluate shows no value).
C19_RenderNeverThrows == view # "crashed"

Distinct(metrics) ==
  \A i, j \in 1..Len(metrics) : i # j => metrics[i].id # metrics[j].id
\* the slug of name, with the smallest suffix _1, _2, ... that is not taken
ExpectedId(taken, name) ==
  IF Slug(name) \notin taken THEN Slug(name)
  ELSE LET free == {i \in 1..(Cardinality(taken) + 1) : (Slug(name) \o "_" \o ToString(i)) \notin taken}
       IN Slug(name) \o "_" \o ToString(CHOOSE i \in free : \A j \in free : i <= j)

\* C20: after any sequence of create, edit, delete and toggle from the empty
\* list the ids of the custom metrics are pairwise distinct; a created metric
\* gets the slug of its name with the smallest numeric suffix that makes it
\* unique; edit and toggle change no id.
C20_MetricIds ==
  [][/\ Distinct(customMetrics')
     /\ Len(customMetrics') = Len(customMetrics) + 1 =>
          /\ SubSeq(customMetrics', 1, Len(customMetrics)) = customMetrics
          /\ customMetrics'[Len(customMetrics')].id
               = ExpectedId(Ids(customMetrics), customMetrics'[Len(customMetrics')].name)
     /\ Len(customMetrics') = Len(customMetrics) =>
          \A i \in 1..Len(customMetrics) : customMetrics'[i].id = customMetrics[i].id
     /\ Len(customMetrics') < Len(customMetrics) => Ids(customMetrics') \subseteq Ids(customMetrics)]_vars

\* two metrics created under the name ROAS; the first was then renamed and
\* the second switched off
C20_Witness ==
  /\ Len(customMetrics) = 2
  /\ customMetrics[1].id = "roas" /\ customMetrics[1].name = "Roas 1"
  /\ customMetrics[2].id = "roas_1" /\ customMetrics[2].name = "ROAS" /\ ~customMetrics[2].enabled

\* the first n answers of the call were all of one class
FirstAnswers(n, class) ==
  /\ Len(callLog) > n
  /\ \A i \in 1..n : callLog[i].answer = class

\* C25: the two retry layers of metaFetch count separately: a transport
\* exception that follows three consecutive 429 answers is still retried by
\* the catch layer, and a 429 that follows three transport exceptions is
\* still retried by the rate-limit layer.
C25_RetryLayersIndependent ==
  /\ (FirstAnswers(3, "ratelimit") /\ callLog[4].answer = "transport")
       => callLog[4].layer = "catch" /\ callLog[4].wait > 0
  /\ (FirstAnswers(3, "transport") /\ callLog[4].answer = "ratelimit")
       => callLog[4].layer = "rate" /\ callLog[4].wait > 0

\* the fields every upstream request must carry at the given level
AlwaysRequested(level) ==
  {"actions", "action_values", "purchase_roas", "outbound_clicks", "outbound_clicks_ctr",
   "campaign_name", "campaign_id", "account_name", "account_id"}
    \cup (IF level \in {"adset", "ad"} THEN {"adset_name", "adset_id"} ELSE {})
    \cup (IF level = "ad" THEN {"ad_name", "ad_id"} ELSE {})

\* the request about to be sent is built from the current fields
SendsFields == next # <<>> /\ next[1].query["fields"] = Join(fields, ",")

\* C26: every upstream request of a POST carries all always-included fields
\* of its level, and once a repair round has removed a field name no later
\* upstream request of that POST carries the name.
C26_RemovedFieldsStayOut ==
  pc = "fetch" =>
    /\ SendsFields
    /\ AlwaysRequested(body.level) \subseteq Range(fields)
    /\ Range(removedFields) \cap Range(fields) = {}

IdentityFields == {"id", "campaign_id", "account_id", "adset_id", "ad_id", "name", "account_name"}
UpstreamRatioFields == {"result_rate", "frequency"}

\* the indices of the normalised rows grouped under the key of group row g
GroupOf(g) ==
  {i \in 1..Len(detailRows) :
     /\ ~Falsy(ExpectedGroupKey(detailRows[i]))
     /\ ExpectedGroupKey(detailRows[i]) = ExpectedGroupKey(rawRows[g])}

\* the rows of S that carry a finite number other than 0 under k
Contributing(S, k) ==
  {i \in S : FiniteNumber(Get(detailRows[i].o, k)) /\ detailRows[i].o[k].n # 0}

\* the first normalised row of the group of group row g
FirstOf(g) == detailRows[CHOOSE i \in GroupOf(g) : \A j \in GroupOf(g) : i <= j]

\* C27: in a group row an identity field keeps the value of the first row of
\* the group; ctr, cpm, cpc and cost_per_result are recomputed from the
\* group's own sums; result_rate and the other upstream ratios are not the
\* sum of the rows' values when several rows carry one; date_start is the
\* earliest and date_stop the latest date of the group.
C27_OnlyAdditiveFieldsSummed ==
  Loaded =>
    \A g \in 1..Len(rawRows) :
      /\ \A k \in IdentityFields : Get(rawRows[g].o, k) = Get(FirstOf(g).o, k)
      /\ rawRows[g].o.ctr = ExpectedRatio(rawRows[g].o.clicks, rawRows[g].o.impressions)
      /\ rawRows[g].o.cpm
           = NumMul(ExpectedRatio(rawRows[g].o.spend, rawRows[g].o.impressions), Num(1000))
      /\ rawRows[g].o.cpc = ExpectedRatio(rawRows[g].o.spend, rawRows[g].o.clicks)
      /\ rawRows[g].o.cost_per_result = ExpectedRatio(rawRows[g].o.spend, rawRows[g].o.results)
      /\ \A k \in UpstreamRatioFields :
           Cardinality(Contributing(GroupOf(g), k)) > 1 =>
             Get(rawRows[g].o, k) # ExpectedSum(detailRows, Contributing(GroupOf(g), k), k)
      /\ \A i \in GroupOf(g) :
           /\ Get(detailRows[i].o, "date_start").t = "string" =>
                DateRank(rawRows[g].o.date_start) <= DateRank(detailRows[i].o.date_start)
           /\ Get(detailRows[i].o, "date_stop").t = "string" =>
                DateRank(rawRows[g].o.date_stop) >= DateRank(detailRows[i].o.date_stop)

AmountFields == <<"spend", "value", "results", "clicks", "impressions">>
NonNegativeRow(row) == \A f \in Range(AmountFields) : FiniteNumber(row[f]) /\ row[f].n >= 0

\* the name a breakdown row is counted under
ExpectedBucket(row) == IF row.bucket.t = "string" /\ row.bucket.s # "" THEN row.bucket.s ELSE "Unknown"

RECURSIVE BucketTotal(_, _)
\* the sum of field f over the breakdown rows with an index in S
BucketTotal(S, f) ==
  IF S = {} THEN Num(0)
  ELSE LET i == CHOOSE x \in S : TRUE
           rest == BucketTotal(S \ {i}, f)
       IN Rat(platformRows[i][f].n * rest.d + rest.n * platformRows[i][f].d,
              platformRows[i][f].d * rest.d)

\* the first positive total of the rows in S, in the order of AmountFields
FirstPositiveTotal(S) ==
  LET positive == {p \in 1..Len(AmountFields) : BucketTotal(S, AmountFields[p]).n > 0}
  IN IF positive = {} THEN Num(0)
     ELSE BucketTotal(S, AmountFields[CHOOSE p \in positive : \A q \in positive : p <= q])

\* C28: for breakdown rows without negative values, the distribution has one
\* entry per dimension value (rows without one under "Unknown"), the amount
\* of an entry is the first positive one of the entry's totals of spend,
\* value, results, clicks and impressions (0 when none is), and the entries
\* come in descending order of amount.
C28_AmountIsFirstPositiveTotal ==
  (Loaded /\ \A i \in 1..Len(platformRows) : NonNegativeRow(platformRows[i])) =>
    /\ {platformDistribution[p].name : p \in 1..Len(platformDistribution)}
         = {ExpectedBucket(platformRows[i]) : i \in 1..Len(platformRows)}
    /\ \A p \in 1..Len(platformDistribution) :
         platformDistribution[p].amount
           = FirstPositiveTotal({i \in 1..Len(platformRows) :
                                   ExpectedBucket(platformRows[i]) = platformDistribution[p].name})
    /\ \A p, q \in 1..Len(platformDistribution) :
         p < q => platformDistribution[p].amount.n * platformDistribution[q].amount.d
                    >= platformDistribution[q].amount.n * platformDistribution[p].amount.d

\* the numeric value of a member of a FlatRow, 0 when absent or not numeric
NumericOr0(row, k) == IF Coercible(Get(row, k)) THEN Coerced(row[k]) ELSE Num(0)

\* C29: the normalised row of a FlatRow has impressions, clicks, spend and
\* results equal to the numeric value of the FlatRow's member of that name,
\* and value equal to the numeric value of action_values_purchase.
C29_CoreFieldsAreSourceValues ==
  Loaded =>
    \A i \in 1..Len(detailRows) :
      /\ \A k \in {"impressions", "clicks", "spend", "results"} :
           detailRows[i].o[k] = NumericOr0(mainResponse[i], k)
      /\ detailRows[i].o.value = NumericOr0(mainResponse[i], "action_values_purchase")

\* the metrics a stored list stands for, member by member
ReadBack(list) ==
  [i \in 1..Len(list) |->
     [id |-> list[i]["id"].s, name |-> list[i]["name"].s, formula |-> list[i]["formula"].s,
      enabled |-> list[i]["enabled"] = True]]

\* C21: whenever the list of custom metrics is written to the settings,
\* sanitizeStoredMetrics of what was written is the list in memory (same
\* metrics, same order, same id, name, formula and enabled); when the restore
\* effect runs on a stored list, it restores exactly the metrics stored, and
\* restoring what it restored changes nothing.
C21_MetricsRoundTrip ==
  [][/\ stored' # stored => sanitizeStoredMetrics(stored'[1]) = customMetrics'
     /\ (configLoaded' /\ ~configLoaded /\ stored # <<>> /\ stored[1] # <<>>) =>
          /\ customMetrics' = ReadBack(stored[1])
          /\ stored' = stored
          /\ sanitizeStoredMetrics(StoredList(customMetrics')) = customMetrics']_vars

\* a page loaded again has restored a disabled metric that only the rows of
\* the page before allowed to create
C21_Witness ==
  /\ view = "ready" /\ configLoaded /\ detailRows = <<>> /\ applied = <<>>
  /\ Len(customMetrics) = 2
  /\ customMetrics[2].formula = "actions_link_click / spend" /\ ~customMetrics[2].enabled
  /\ customMetrics[1].enabled
  /\ stored = <<StoredList(customMetrics)>>

StoredIds == IF stored = <<>> THEN {} ELSE {stored[1][i]["id"].s : i \in 1..Len(stored[1])}

\* C22: a metric in the stored settings stays there until the user deletes
\* it, whatever the order of the user's changes, the end of the
\* configuration load and the restore effect; once the configuration is
\* loaded the stored metrics are also the ones in memory.
C22_StoredMetricsSurvive ==
  /\ [][\A id \in StoredIds : id \in StoredIds' \/ removeCustomMetric(id)]_vars
  /\ [](configLoaded => StoredIds \subseteq Ids(customMetrics))

RowStates == <<detailRows, rawRows, platformRows, lastUpdated>>
\* call r left inFlight in this step
Settles(r) == r \in inFlight /\ r \notin inFlight' /\ triggered' = triggered

\* C23: when a load settles without storing rows (one of its requests
\* failed, or fields were newly removed), detailRows, rawRows, the breakdown
\* rows and lastUpdated are left as they were and an error message is set;
\* when it stores rows, all row states are replaced by the rows of its own
\* answers and lastUpdated is set anew.
C23_LoadAllOrNothing ==
  [][\A r \in inFlight :
       Settles(r) =>
         IF applied' = applied
         THEN RowStates' = RowStates /\ errorMessage' # ""
         ELSE /\ detailRows' = [i \in 1..Len(r.main) |-> normalizeMainRow(r.main[i])]
              /\ rawRows' = aggregateByCampaign(detailRows')
              /\ platformRows' = normalizeBreakdownRows(r.platform, "publisher_platform")
              /\ lastUpdated' # <<>> /\ lastUpdated' # lastUpdated]_vars

\* a load failed after another had stored its rows
C23_Witness ==
  /\ errorMessage = "Unable to load insights"
  /\ Len(applied) = 1 /\ triggered = 2 /\ inFlight = {}
  /\ detailRows # <<>> /\ rawRows # <<>> /\ platformRows # <<>> /\ lastUpdated = <<1>>

\* C24: loads are not mutually excluded, and the rows shown are those of the
\* load that resolved last, also when it was sent first.
C24_LastResolvedWins ==
  (view = "ready" /\ applied # <<>> /\ lastUpdated # <<>>) =>
    /\ mainResponse = applied[Len(applied)].main
    /\ detailRows = [i \in 1..Len(mainResponse) |-> normalizeMainRow(mainResponse[i])]
    /\ platformResponse = applied[Len(applied)].platform

\* both loads have resolved, the second before the first, and the rows shown
\* are those of the first
C24_Witness ==
  /\ inFlight = {} /\ Len(applied) = 2
  /\ applied[1].n = 2 /\ applied[2].n = 1
  /\ applied[1].main = WithoutLinkClicks /\ applied[2].main = WithLinkClicks
  /\ mainResponse = WithLinkClicks
  /\ Len(detailRows) = 1 /\ "actions_link_click" \in DOMAIN detailRows[1].o

\* C30: isLoading is true exactly while at least one load is awaiting its
\* requests.
C30_LoadingWhileInFlight == view = "ready" => (isLoading <=> inFlight # {})

====
